---- MODULE Spec2Model ----
(***************************************************************************)
(* CloudAttend: RFID attendance terminal (ESP8266 firmware), its Google    *)
(* Apps Script endpoint, the sheets it keeps, and the dashboard.           *)
(*                                                                         *)
(* The specifications:                                                     *)
(*   SpecParse     the reply classifier parseApiResponse, applied to HTTP  *)
(*                 status codes and to bodies built from reply fragments;  *)
(*   Spec          setup() and the scan loop of the terminal (card tap,    *)
(*                 postScanEvent with its retries, outcome feedback)       *)
(*                 against the endpoint's scan handler and its sheets;     *)
(*   SpecLive      Spec on one day, with fairness of the device steps;     *)
(*   SpecRoster    the roster cache and the functions that touch it;       *)
(*   SpecWifi      connectToWiFi and tryConnectToNetwork;                  *)
(*   SpecTime      ensureTimeSync and what follows it (SpecTimeLive with   *)
(*                 fairness);                                              *)
(*   SpecProbe     verifyAppsScriptEndpoint;                               *)
(*   SpecServer    doPost on its own: scan and register requests;          *)
(*   SpecRoundTrip register requests and roster reloads;                   *)
(*   SpecBoot      setup() with the clock wait, with fairness;             *)
(*   SpecLock      doPost executions running at the same time;             *)
(*   SpecPost      doPost from the request body on;                        *)
(*   SpecDash      the dashboard: loadDashboard and submitRegistration.    *)
(* Strings are real strings: markers are searched in the body character    *)
(* by character, as String::indexOf does.                                  *)
(***************************************************************************)
EXTENDS Integers, Sequences, FiniteSets, TLC

VARIABLES
    \* ---- classifier harness (SpecParse) ----
    pHttpCode,      \* the HTTP status handed to parseApiResponse
    pBody,          \* the body handed to parseApiResponse
    pRes,           \* the ApiResponse it returned
    pDone,          \* whether parseApiResponse has run on (pHttpCode, pBody)
    \* ---- terminal (Spec) ----
    pc,             \* where setup()/loop() stand: "boot", "boot_roster",
                    \* "boot_probe", "idle", "attempt", "returned"
    uidHex,         \* the identifier of the card being processed
    attempt,        \* postScanEvent's loop counter
    response,       \* postScanEvent's local ApiResponse
    log,            \* one record per loop iteration of postScanEvent, this tap
    linkUp,         \* WiFi.status() == WL_CONNECTED
    display,        \* title of the last fullscreen status
    rosterAvailable,    \* setup(): loadStudentRegistry() returned true
    servicesAvailable,  \* setup(): performSanityChecks() returned true
    status,         \* the last status line shown by displayStatus[Hold]
    steps,          \* what loop() has done for the tap in progress, in order
    \* ---- roster cache (Spec, SpecRoster) ----
    studentRegistry,\* the cache, a sequence of StudentRecord
    rOp,            \* the last cache operation run under SpecRoster
    \* ---- endpoint (Spec) ----
    students,       \* rows of the Students sheet
    attendance,     \* rows of the Attendance sheet
    unregistered,   \* rows of the Unregistered_CARDs sheet
    today,          \* the endpoint's current day (DateKey)
    tapChanges,     \* attendance changes recorded for the tap in progress
    taps,           \* card taps read so far
    \* ---- connectToWiFi / tryConnectToNetwork (SpecWifi) ----
    wPc,            \* "idle", "begin" (before WiFi.begin), "poll", "done"
    scan,           \* what WiFi.scanNetworks found: records [ssid, rssi]
    detected,       \* connectToWiFi's local vector, after std::sort
    priority,       \* connectToWiFi's local vector of candidates
    wIdx,           \* index into priority of the candidate being tried
    wAttempts,      \* tryConnectToNetwork's local counter of status polls
    wTried,         \* candidates tried so far: records [ssid, polls, joined]
    wConnected,     \* connectToWiFi's return value
    \* ---- ensureTimeSync and its callers (SpecTime) ----
    tPc,            \* "idle", "sync", "synced", then "stamped", "posted"
                    \* in loop() and "roster" in setup()
    tCaller,        \* "setup" or "loop"
    now,            \* the value of time(nullptr), seconds since the epoch
    guard,          \* ensureTimeSync's local counter of polls
    timedOut,       \* the NTP timeout warning was logged
    isoTimestamp,   \* loop(): the timestamp built for the tap
    \* ---- verifyAppsScriptEndpoint (SpecProbe) ----
    probe,          \* the health probe in progress or just finished
    \* ---- doPost on its own (SpecServer) ----
    srvRequest,     \* the last request doPost handled
    srvReply,       \* the body of its reply
    registers,      \* register requests handled so far
    scanLog,        \* scans handled so far: records [uid, day, reply]
    \* ---- concurrent doPost executions (SpecLock) ----
    lock,           \* the script lock: 0 when free, else the execution holding it
    calls,          \* per execution: where doPost stands and what it holds
    \* ---- dashboard, script.js (SpecDash) ----
    loading,        \* state.loading
    dashState,      \* state.students, state.attendance, state.unregistered
    fetches,        \* the loadDashboard calls so far: records [pc, snap, by]
    regPc,          \* submitRegistration: "idle", "posted", "served",
                    \* "loading", "done", "failed"
    lastLoad        \* how the last load that finished ended

parseVars == <<pHttpCode, pBody, pRes, pDone>>
devVars == <<pc, uidHex, attempt, response, log, linkUp, display>>
bootVars == <<rosterAvailable, servicesAvailable, status>>
cacheVars == <<studentRegistry, rOp>>
srvVars == <<students, attendance, unregistered, today, tapChanges, taps>>
wifiVars ==
    <<wPc, scan, detected, priority, wIdx, wAttempts, wTried, wConnected>>
timeVars == <<tPc, tCaller, now, guard, timedOut, isoTimestamp>>
reqVars == <<srvRequest, srvReply, registers, scanLog>>
lockVars == <<lock, calls>>
dashVars == <<loading, dashState, fetches, regPc, lastLoad>>
webVars == <<lockVars, dashVars>>
unitVars == <<wifiVars, timeVars, probe, reqVars, webVars>>
vars == <<parseVars, devVars, bootVars, steps, cacheVars, srvVars, unitVars>>

----------------------------------------------------------------------------
(* Bounds *)

\* Fragments concatenated into one body handed to the classifier.
MaxFrags == 3
\* Lines of one roster feed.
MaxLines == 2
\* Cache operations run after the load in one run of SpecRoster.
MaxOps == 1
\* Card taps read in one run of Spec.
MaxTaps == 2
\* Days the endpoint's clock runs through.
MaxDay == 2

----------------------------------------------------------------------------
(* Arduino String primitives, 0-based as in WString *)

Min(S) == CHOOSE x \in S : \A y \in S : x <= y

\* String::indexOf(needle, fromIndex): first position >= fromIndex, or -1.
\* (h ranges over the one value of haystack, which is thus computed once.)
IndexOf(haystack, needle, fromIndex) ==
    CHOOSE found \in
        {IF fromIndex >= Len(h) THEN -1
         ELSE LET hits == {i \in fromIndex..(Len(h) - Len(needle)) :
                              SubSeq(h, i + 1, i + Len(needle)) = needle}
              IN IF hits = {} THEN -1 ELSE Min(hits) : h \in {haystack}} : TRUE

\* String::substring(left, right): characters [left, right).
Substring(s, left, right) ==
    CHOOSE piece \in
        {LET l == IF a > b THEN b ELSE a
             r0 == IF a > b THEN a ELSE b
             r == IF r0 > Len(v) THEN Len(v) ELSE r0
         IN IF l >= Len(v) THEN "" ELSE SubSeq(v, l + 1, r) :
            v \in {s}, a \in {left}, b \in {right}} : TRUE

\* The lambda `contains` of parseApiResponse.
Contains(haystack, needle) == IndexOf(haystack, needle, 0) # -1

Digit(d) == SubSeq("0123456789", d + 1, d + 1)

\* String + int: the decimal text of a positive integer.
RECURSIVE ToDecimal(_)
ToDecimal(n) == IF n < 10 THEN Digit(n) ELSE ToDecimal(n \div 10) \o Digit(n % 10)

----------------------------------------------------------------------------
(* ApiResponse and parseApiResponse *)

HTTP_CODE_OK == 200

\* struct ApiResponse, default-constructed (elapsedMs, a timing, is left out).
DefaultResponse ==
    [success |-> FALSE, action |-> "", httpCode |-> 0, message |-> "",
     firstName |-> "", fullName |-> ""]

\* HTTPClient::errorToString for the transport codes used here.
ErrorToString(code) ==
    CASE code = -1 -> "connection failed"
      [] code = -4 -> "not connected"
      [] code = -5 -> "connection lost"
      [] code = -11 -> "read Timeout"
      [] OTHER -> ""

OkMarker == "\"status\":\"ok\""
ErrorMarker == "\"status\":\"error\""
Quote == "\""

\* The quoted value following `key`: the text between the first quote at or
\* after keyPos + Len(key) and the next quote; found = FALSE when the key or
\* either quote is missing.
ExtractQuoted(body, key) ==
    LET keyPos == IndexOf(body, key, 0)
        quoteStart == IF keyPos = -1 THEN -1
                      ELSE IndexOf(body, Quote, keyPos + Len(key))
        quoteEnd == IF quoteStart # -1 THEN IndexOf(body, Quote, quoteStart + 1)
                    ELSE -1
    IN IF keyPos # -1 /\ quoteStart # -1 /\ quoteEnd # -1 /\ quoteEnd > quoteStart
       THEN [found |-> TRUE, value |-> Substring(body, quoteStart + 1, quoteEnd)]
       ELSE [found |-> FALSE, value |-> ""]

\* The if-chain choosing res.action in an ok reply, with two slips of it:
\* the check-out token answered as a check-in, and a bare "unregistered"
\* taken for the action when no action token is recognised.
ActionOfBodyCheckoutAsCheckin(body) ==
    IF Contains(body, "\"action\":\"checkin\"") THEN "checkin"
    ELSE IF Contains(body, "\"action\":\"checkout\"") THEN "checkin"
    ELSE IF Contains(body, "\"action\":\"alreadyCheckedOut\"") THEN "alreadyCheckedOut"
    ELSE IF Contains(body, "\"action\":\"unregistered\"") THEN "unregistered"
    ELSE "acknowledged"

ActionOfBodyLooseUnregistered(body) ==
    IF Contains(body, "\"action\":\"checkin\"") THEN "checkin"
    ELSE IF Contains(body, "\"action\":\"checkout\"") THEN "checkout"
    ELSE IF Contains(body, "\"action\":\"alreadyCheckedOut\"") THEN "alreadyCheckedOut"
    ELSE IF Contains(body, "unregistered") THEN "unregistered"
    ELSE ""

ActionOfBody(body) ==
    IF Contains(body, "\"action\":\"checkin\"") THEN "checkin"
    ELSE IF Contains(body, "\"action\":\"checkout\"") THEN "checkout"
    ELSE IF Contains(body, "\"action\":\"alreadyCheckedOut\"") THEN "alreadyCheckedOut"
    ELSE IF Contains(body, "\"action\":\"unregistered\"") THEN "unregistered"
    ELSE "acknowledged"

\* The ok branch: success, the action, and the names carried by the reply.
OkBranch(res, body) ==
    LET first == ExtractQuoted(body, "\"firstName\":")
        full == ExtractQuoted(body, "\"fullName\":")
    IN [res EXCEPT !.success = TRUE,
                   !.action = ActionOfBody(body),
                   !.firstName = IF first.found THEN first.value ELSE "",
                   !.fullName = IF full.found THEN full.value ELSE ""]

\* The error branch: "Script error" unless a message can be extracted.
ErrorBranch(res, body) ==
    LET msg == ExtractQuoted(body, "\"message\":")
    IN [res EXCEPT !.message = IF msg.found THEN msg.value ELSE "Script error"]

\* Slips of the body classification: no empty-body test; the "unregistered"
\* fallback tried before the error marker; no "unregistered" fallback.
ClassifyBodyNoEmptyTest(res, body) ==
    IF Contains(body, OkMarker) THEN OkBranch(res, body)
    ELSE IF Contains(body, ErrorMarker) THEN ErrorBranch(res, body)
    ELSE IF Contains(body, "unregistered")
      THEN [res EXCEPT !.success = TRUE, !.action = "unregistered"]
    ELSE [res EXCEPT !.message = "Unexpected body"]

ClassifyBodyFallbackFirst(res, body) ==
    IF Len(body) = 0 THEN [res EXCEPT !.message = "Empty body"]
    ELSE IF Contains(body, OkMarker) THEN OkBranch(res, body)
    ELSE IF Contains(body, "unregistered")
      THEN [res EXCEPT !.success = TRUE, !.action = "unregistered"]
    ELSE IF Contains(body, ErrorMarker) THEN ErrorBranch(res, body)
    ELSE [res EXCEPT !.message = "Unexpected body"]

ClassifyBodyNoFallback(res, body) ==
    IF Len(body) = 0 THEN [res EXCEPT !.message = "Empty body"]
    ELSE IF Contains(body, OkMarker) THEN OkBranch(res, body)
    ELSE IF Contains(body, ErrorMarker) THEN ErrorBranch(res, body)
    ELSE [res EXCEPT !.message = "Unexpected body"]

\* parseApiResponse once the status is known to be 200: the body decides.
ClassifyBody(res, body) ==
    IF Len(body) = 0 THEN [res EXCEPT !.message = "Empty body"]
    ELSE IF Contains(body, OkMarker) THEN OkBranch(res, body)
    ELSE IF Contains(body, ErrorMarker) THEN ErrorBranch(res, body)
    ELSE IF Contains(body, "unregistered")
      THEN [res EXCEPT !.success = TRUE, !.action = "unregistered"]
    ELSE [res EXCEPT !.message = "Unexpected body"]

\* A slip of parseApiResponse: the body is classified for every status > 0.
ParseApiResponseAnyStatus(httpCode, body) ==
    LET res == [DefaultResponse EXCEPT !.httpCode = httpCode]
    IN IF httpCode <= 0
         THEN [res EXCEPT !.message = ErrorToString(httpCode)]
       ELSE ClassifyBody(res, body)

ParseApiResponse(httpCode, body) ==
    LET res == [DefaultResponse EXCEPT !.httpCode = httpCode]
    IN IF httpCode <= 0
         THEN [res EXCEPT !.message = ErrorToString(httpCode)]
       ELSE IF httpCode # HTTP_CODE_OK
         THEN [res EXCEPT !.message = "HTTP " \o ToDecimal(httpCode)]
       ELSE ClassifyBody(res, body)

\* The title loop() shows for a response (showFullscreenStatus's first line).
PresentTitle(res) ==
    IF ~res.success THEN "Error"
    ELSE IF res.action = "checkin" THEN "Check-in"
    ELSE IF res.action = "checkout" THEN "Check-out"
    ELSE IF res.action = "alreadyCheckedOut" THEN "Already out"
    ELSE IF res.action = "unregistered" THEN "Unknown card"
    ELSE "Recorded"

----------------------------------------------------------------------------
(* The endpoint: doPost, scan branch, and the sheets *)

NoStudent == [CARD_UID |-> "", SUID |-> "", FirstName |-> "", LastName |-> ""]

\* findStudentByUid(sheet, uid): first row whose CARD_UID is exactly uid.
FindStudentByUid(sheet, uid) ==
    LET hits == {i \in 1..Len(sheet) :
                    sheet[i].CARD_UID # "" /\ sheet[i].CARD_UID = uid}
    IN IF hits = {} THEN NoStudent ELSE sheet[Min(hits)]

Max(S) == CHOOSE x \in S : \A y \in S : x >= y

\* A slip of the search below: the day of the row is not compared.
FindOpenAttendanceRowAnyDate(sheet, uid, dateKey) ==
    LET hits == {i \in 1..Len(sheet) : sheet[i].CARD_UID = uid}
    IN IF hits = {} THEN 0
       ELSE IF sheet[Max(hits)].CheckOutTime = "" THEN Max(hits) ELSE 0

\* findOpenAttendanceRowForDate: scanning from the bottom, the latest row of
\* uid on dateKey decides: its index when it has no check-out, else 0 (null).
FindOpenAttendanceRowForDate(sheet, uid, dateKey) ==
    LET hits == {i \in 1..Len(sheet) :
                    sheet[i].CARD_UID = uid /\ sheet[i].DateKey = dateKey}
    IN IF hits = {} THEN 0
       ELSE IF sheet[Max(hits)].CheckOutTime = "" THEN Max(hits) ELSE 0

\* Utilities.formatDate(now, tz, "yyyy-MM-dd'T'HH:mm:ssXXX") for day d.
IsoOfDay(d) == "2025-10-1" \o Digit(d) \o "T09:30:00+05:30"

HumanTime == "9:30 AM"

\* A slip of the reply below: an unknown card is answered as an error.
JsonUnregisteredAsError(iso) ==
    "{\"status\":\"error\",\"action\":\"unregistered\",\"timestamp\":\""
    \o iso \o "\"}"

\* JSON.stringify of the three scan replies and of an error reply.
JsonUnregistered(iso) ==
    "{\"status\":\"ok\",\"action\":\"unregistered\",\"timestamp\":\"" \o iso \o "\"}"

JsonAttendance(action, iso, firstName, fullName) ==
    "{\"status\":\"ok\",\"action\":\"" \o action \o "\",\"timestamp\":\"" \o iso
    \o "\",\"firstName\":\"" \o firstName \o "\",\"fullName\":\"" \o fullName \o "\"}"

JsonError(message) ==
    "{\"status\":\"error\",\"message\":\"" \o message \o "\"}"

\* `${student.FirstName} ${student.LastName}`.trim()
FullNameOf(student) ==
    IF student.LastName = "" THEN student.FirstName
    ELSE IF student.FirstName = "" THEN student.LastName
    ELSE student.FirstName \o " " \o student.LastName

\* doPost for {"uid": uid, "action": "scan"}, run under the script lock: the
\* sheets after the request, the reply body, and the number of attendance
\* changes (rows appended or check-outs set) it made.
DoPostScan(uid) ==
    LET student == FindStudentByUid(students, uid)
        openRow == FindOpenAttendanceRowForDate(attendance, uid, today)
        iso == IsoOfDay(today)
    IN IF uid = ""
         THEN [attendance |-> attendance, unregistered |-> unregistered,
               body |-> JsonError("UID is required"), changes |-> 0]
       ELSE IF student = NoStudent
         THEN [attendance |-> attendance,
               unregistered |-> Append(unregistered,
                   [CARD_UID |-> uid, Date |-> today, Status |-> "Pending"]),
               body |-> JsonUnregistered(iso), changes |-> 0]
       ELSE IF openRow = 0
         THEN [attendance |-> Append(attendance,
                   [CARD_UID |-> uid, SUID |-> student.SUID, DateKey |-> today,
                    CheckInTime |-> HumanTime, CheckOutTime |-> "",
                    Name |-> FullNameOf(student)]),
               unregistered |-> unregistered,
               body |-> JsonAttendance("checkin", iso, student.FirstName,
                                       FullNameOf(student)),
               changes |-> 1]
       ELSE [attendance |-> [attendance EXCEPT ![openRow].CheckOutTime = HumanTime],
             unregistered |-> unregistered,
             body |-> JsonAttendance("checkout", iso, student.FirstName,
                                     FullNameOf(student)),
             changes |-> 1]

----------------------------------------------------------------------------
(* The roster cache: studentRegistry and the functions that touch it *)

\* isspace()
IsSpace(c) == c \in {" ", "\t", "\n", "\r", "\f"}

\* String::trim
Trim(s) ==
    CHOOSE trimmed \in
        {LET solid == {i \in 1..Len(v) : ~IsSpace(SubSeq(v, i, i))}
         IN IF solid = {} THEN "" ELSE SubSeq(v, Min(solid), Max(solid)) :
            v \in {s}} : TRUE

\* toupper() on one character
UpperChar(c) ==
    LET i == IndexOf("abcdefghijklmnopqrstuvwxyz", c, 0)
    IN IF i = -1 THEN c ELSE SubSeq("ABCDEFGHIJKLMNOPQRSTUVWXYZ", i + 1, i + 1)

\* String::toUpperCase
RECURSIVE ToUpperCase(_)
ToUpperCase(s) ==
    CHOOSE upper \in
        {IF Len(v) = 0 THEN ""
         ELSE UpperChar(SubSeq(v, 1, 1)) \o ToUpperCase(SubSeq(v, 2, Len(v))) :
            v \in {s}} : TRUE

\* String::startsWith
StartsWith(s, prefix) ==
    \E v \in {s}, p \in {prefix} : Len(v) >= Len(p) /\ SubSeq(v, 1, Len(p)) = p

NoRow == [uid |-> "", firstName |-> "", lastName |-> ""]

\* The fields of one trimmed roster line that is neither blank, comment nor
\* header; valid = FALSE when the row is discarded.
RosterRowOf(line) ==
    LET firstComma == IndexOf(line, ",", 0)
        secondComma == IndexOf(line, ",", firstComma + 1)
        uid == ToUpperCase(Trim(Substring(line, 0, firstComma)))
        firstName == Trim(IF secondComma = -1
                          THEN Substring(line, firstComma + 1, Len(line))
                          ELSE Substring(line, firstComma + 1, secondComma))
        lastName == Trim(IF secondComma = -1 THEN ""
                         ELSE Substring(line, secondComma + 1, Len(line)))
    IN IF firstComma = -1 THEN [valid |-> FALSE, row |-> NoRow]
       ELSE IF Len(uid) = 0 \/ Len(firstName) = 0
         THEN [valid |-> FALSE, row |-> NoRow]
       ELSE [valid |-> TRUE,
             row |-> [uid |-> uid, firstName |-> firstName, lastName |-> lastName]]

\* A slip of the line parser below: a row without a last name is discarded.
ParseRosterLineNeedsLastName(line) ==
    IF Len(line) = 0 \/ StartsWith(line, "#") THEN [valid |-> FALSE, row |-> NoRow]
    ELSE IF StartsWith(line, "uid") \/ StartsWith(line, "UID")
            \/ StartsWith(line, "CARD_UID")
      THEN [valid |-> FALSE, row |-> NoRow]
    ELSE IF RosterRowOf(line).row.lastName = "" THEN [valid |-> FALSE, row |-> NoRow]
    ELSE RosterRowOf(line)

\* The body of parseStudentRegistry's while loop for one trimmed line.
ParseRosterLine(line) ==
    IF Len(line) = 0 \/ StartsWith(line, "#") THEN [valid |-> FALSE, row |-> NoRow]
    ELSE IF StartsWith(line, "uid") \/ StartsWith(line, "UID")
            \/ StartsWith(line, "CARD_UID")
      THEN [valid |-> FALSE, row |-> NoRow]
    ELSE RosterRowOf(line)

\* parseStudentRegistry's while loop from position start on.
RECURSIVE ParseRosterFrom(_, _, _)
ParseRosterFrom(body, start, registry) ==
    IF start >= Len(body) THEN registry
    ELSE LET nl == IndexOf(body, "\n", start)
             end == IF nl = -1 THEN Len(body) ELSE nl
             parsed == ParseRosterLine(Trim(Substring(body, start, end)))
         IN ParseRosterFrom(body, end + 1,
                            IF parsed.valid THEN Append(registry, parsed.row)
                            ELSE registry)

\* parseStudentRegistry: the cache is cleared, then filled row by row;
\* ok is imported > 0.
ParseStudentRegistry(body) ==
    IF Len(body) = 0 THEN [ok |-> FALSE, registry |-> <<>>]
    ELSE LET filled == ParseRosterFrom(body, 0, <<>>)
         IN [ok |-> Len(filled) > 0, registry |-> filled]

\* A slip of loadStudentRegistry: the body is parsed before the status is
\* looked at.
LoadStudentRegistryParsesFirst(link, reply, registry) ==
    IF ~link \/ ~reply.begun THEN [ok |-> FALSE, registry |-> registry]
    ELSE IF reply.code < HTTP_CODE_OK \/ reply.code >= 300
      THEN [ok |-> FALSE, registry |-> ParseStudentRegistry(reply.body).registry]
    ELSE ParseStudentRegistry(reply.body)

\* loadStudentRegistry with the link state and the reply to the roster GET:
\* its return value and the cache it leaves.
LoadStudentRegistry(link, reply, registry) ==
    IF ~link \/ ~reply.begun THEN [ok |-> FALSE, registry |-> registry]
    ELSE IF reply.code < HTTP_CODE_OK \/ reply.code >= 300
      THEN [ok |-> FALSE, registry |-> registry]
    ELSE ParseStudentRegistry(reply.body)

\* findStudentByUid on the cache: the index of the first entry whose uid is
\* exactly uid, 0 for nullptr.
RegistryFind(registry, uid) ==
    LET hits == {i \in 1..Len(registry) : registry[i].uid = uid}
    IN IF hits = {} THEN 0 ELSE Min(hits)

\* A slip of the upsert below: the last name is always overwritten.
UpsertOverwritesLastName(registry, uid, firstName, lastName) ==
    LET idx == RegistryFind(registry, uid)
    IN IF Len(uid) = 0 \/ Len(firstName) = 0 THEN registry
       ELSE IF idx # 0
         THEN [registry EXCEPT ![idx].firstName = firstName,
                               ![idx].lastName = lastName]
       ELSE Append(registry,
                   [uid |-> uid, firstName |-> firstName, lastName |-> lastName])

\* upsertStudentCacheRecord
UpsertStudentCacheRecord(registry, uid, firstName, lastName) ==
    LET idx == RegistryFind(registry, uid)
    IN IF Len(uid) = 0 \/ Len(firstName) = 0 THEN registry
       ELSE IF idx # 0
         THEN [registry EXCEPT ![idx].firstName = firstName,
                               ![idx].lastName = IF Len(lastName) > 0 THEN lastName
                                                 ELSE @]
       ELSE Append(registry,
                   [uid |-> uid, firstName |-> firstName, lastName |-> lastName])

\* deriveLastNameFromFullName
DeriveLastNameFromFullName(fullName, firstName) ==
    CHOOSE tail \in
        {LET firstSpace == IndexOf(trimmedFull, " ", 0)
         IN IF Len(trimmedFull) = 0 THEN ""
            ELSE IF Len(trimmedFirst) = 0
              THEN IF firstSpace > 0 /\ firstSpace + 1 < Len(trimmedFull)
                   THEN Trim(Substring(trimmedFull, firstSpace + 1, Len(trimmedFull)))
                   ELSE ""
            ELSE IF Len(trimmedFull) <= Len(trimmedFirst) THEN ""
            ELSE IF StartsWith(trimmedFull, trimmedFirst)
              THEN Trim(Substring(trimmedFull, Len(trimmedFirst), Len(trimmedFull)))
            ELSE "" :
            trimmedFull \in {Trim(fullName)}, trimmedFirst \in {Trim(firstName)}} : TRUE

\* loop(): the first and last name resolved after postScanEvent, from the
\* reply, the entry found in the cache when the card was read (idx, 0 for
\* none) and the full name.
ResolveNames(registry, idx, res) ==
    LET personLabel == IF idx # 0 THEN registry[idx].firstName ELSE ""
        fromReply == IF Len(res.firstName) > 0 THEN res.firstName ELSE personLabel
        trimmedFullName == Trim(res.fullName)
        spacePos == IndexOf(trimmedFullName, " ", 0)
        first == Trim(IF Len(fromReply) = 0 /\ Len(trimmedFullName) > 0
                      THEN IF spacePos > 0 THEN Substring(trimmedFullName, 0, spacePos)
                           ELSE trimmedFullName
                      ELSE fromReply)
        cachedLast == IF idx # 0 THEN registry[idx].lastName ELSE ""
        last == Trim(IF Len(cachedLast) = 0 /\ Len(trimmedFullName) > 0
                     THEN DeriveLastNameFromFullName(trimmedFullName, first)
                     ELSE cachedLast)
    IN [firstName |-> first, lastName |-> last]

\* loop(): whether the cache is upserted after the scan.
ShouldUpsert(res, names) ==
    res.success /\ res.action # "unregistered" /\ Len(names.firstName) > 0

\* A slip of the update below: the action of the reply is not looked at.
RegistryAfterScanAnySuccess(registry, uid, res) ==
    LET names == ResolveNames(registry, RegistryFind(registry, uid), res)
    IN IF res.success /\ Len(names.firstName) > 0
       THEN UpsertStudentCacheRecord(registry, uid, names.firstName, names.lastName)
       ELSE registry

\* loop(): the cache once the scan of card uid has been answered by res.
RegistryAfterScan(registry, uid, res) ==
    LET names == ResolveNames(registry, RegistryFind(registry, uid), res)
    IN IF ShouldUpsert(res, names)
       THEN UpsertStudentCacheRecord(registry, uid, names.firstName, names.lastName)
       ELSE registry

\* str.replace(/"/g, '""')
RECURSIVE DoubleQuotes(_)
DoubleQuotes(str) ==
    IF Len(str) = 0 THEN ""
    ELSE (IF SubSeq(str, 1, 1) = "\"" THEN "\"\"" ELSE SubSeq(str, 1, 1))
         \o DoubleQuotes(SubSeq(str, 2, Len(str)))

\* escapeCsv
EscapeCsv(str) ==
    IF Contains(str, "\"") \/ Contains(str, ",") \/ Contains(str, "\n")
    THEN "\"" \o DoubleQuotes(str) \o "\""
    ELSE str

\* buildRosterCsv: the lines after the header, for the sheet rows from i on.
RECURSIVE RosterCsvLines(_, _)
RosterCsvLines(sheet, i) ==
    IF i > Len(sheet) THEN ""
    ELSE LET rawUid == Trim(sheet[i].CARD_UID)
             rawFirst == Trim(sheet[i].FirstName)
             rawLast == Trim(sheet[i].LastName)
         IN (IF rawUid = "" \/ rawFirst = "" THEN ""
             ELSE "\n" \o EscapeCsv(ToUpperCase(rawUid)) \o "," \o EscapeCsv(rawFirst)
                  \o "," \o EscapeCsv(rawLast))
            \o RosterCsvLines(sheet, i + 1)

\* buildRosterCsv: the feed served for ?registry=1.
BuildRosterCsv(sheet) ==
    "CARD_UID,FirstName,LastName" \o RosterCsvLines(sheet, 1) \o "\n"

----------------------------------------------------------------------------
(* The terminal: loop() and postScanEvent *)

kMaxPostRetries == 3

\* const char *kWifiSsids[]
kWifiSsids ==
    <<"Darshans-Phone", "Shreys-Phone", "Sumits-Phone", "Vaibhavs-Phone",
      "Someones-Phone">>

\* Cards presented to the reader (readUidHex gives uppercase hex).
Cards == {"04A1B2C3", "DEADBEEF"}

\* connectToWiFi(): true when one of the known networks can be joined.
ConnectToWiFi(joinable) ==
    \E idx \in 1..Len(kWifiSsids) : kWifiSsids[idx] \in joinable

\* What the radio environment may offer to one connectToWiFi() call.
JoinableSets == {{}, {"Shreys-Phone"}}

\* What http.POST / http.getString may give when the request did not reach
\* the endpoint, and when it did but the reply did not come back.
UndeliveredReplies ==
    {[code |-> -1, body |-> ""],
     [code |-> 503, body |-> "Service Unavailable"],
     [code |-> 200, body |-> "<html>Sign in</html>"]}

LostReplies == {[code |-> -11, body |-> ""]}

\* for (attempt = 0; attempt < kMaxPostRetries; attempt++)
LoopContinuesInclusive(a) == a <= kMaxPostRetries

LoopContinues(a) == a < kMaxPostRetries

\* What one iteration did: how far it got ("wifi": no link, "begin":
\* http.begin failed, "post": the payload was posted), whether the request
\* reached the endpoint, the response left by it, and the delay it ended with.
LogEntry(kind, delivered, res, delayMs) ==
    [kind |-> kind, delivered |-> delivered, res |-> res, delay |-> delayMs]

\* A slip of the status below: the roster load is not looked at.
IdleStatusProbeOnly(roster, services) ==
    IF services THEN "Ready for scan" ELSE "Limited mode"

\* The status line of the idle screen.
IdleStatus(roster, services) ==
    IF roster /\ services THEN "Ready for scan" ELSE "Limited mode"

\* What the roster GET may give: the feed built by the endpoint, or one of
\* the ways in which the request fails or the feed is of no use.
RosterReplies ==
    {[begun |-> TRUE, code |-> HTTP_CODE_OK, body |-> BuildRosterCsv(students)],
     [begun |-> TRUE, code |-> HTTP_CODE_OK, body |-> ""],
     [begun |-> TRUE, code |-> HTTP_CODE_OK, body |-> "CARD_UID,FirstName,LastName\n"],
     [begun |-> TRUE, code |-> 503, body |-> "Service Unavailable, retry later"],
     [begun |-> TRUE, code |-> -1, body |-> ""],
     [begun |-> FALSE, code |-> 0, body |-> ""]}

\* What http.GET() may return: the HTTPClient error codes (-1 .. -11) and
\* status codes around the limits of each class.
ProbeCodes ==
    (-11..-1) \cup {0, 100, 101, 199, 200, 201, 204, 299, 300, 301, 302, 304,
                    399, 400, 401, 403, 404, 500, 503}

\* What the health request may meet: http.begin fails, or the GET returns.
ProbeReplies ==
    {[begun |-> TRUE, code |-> c] : c \in ProbeCodes}
        \cup {[begun |-> FALSE, code |-> 0]}

\* verifyAppsScriptEndpoint: whether http.GET() is reached.
ProbeRequestSent(link, reply) == link /\ reply.begun

\* A slip of the probe below: only the 2xx class passes.
VerifyAppsScriptEndpoint2xxOnly(link, reply) ==
    /\ link
    /\ reply.begun
    /\ reply.code >= 200 /\ reply.code < 300

\* verifyAppsScriptEndpoint with the link state and what the request meets.
VerifyAppsScriptEndpoint(link, reply) ==
    /\ link
    /\ reply.begun
    /\ reply.code >= 200 /\ reply.code < 400

\* strlen(kAppsScriptUrl) > 0
urlConfigured == TRUE

\* performSanityChecks()
PerformSanityChecks(link, reply) ==
    urlConfigured /\ VerifyAppsScriptEndpoint(link, reply)

\* setup(): connectToWiFi().
BootConnect ==
    /\ pc = "boot"
    /\ \E joinable \in JoinableSets : linkUp' = ConnectToWiFi(joinable)
    /\ pc' = "boot_roster"
    /\ UNCHANGED <<uidHex, attempt, response, log, display>>
    /\ UNCHANGED <<unitVars, parseVars, srvVars, bootVars, steps, cacheVars>>

\* setup(): loadStudentRegistry() and the report of its result.
BootRoster ==
    /\ pc = "boot_roster"
    /\ \E reply \in RosterReplies :
          LET loaded == LoadStudentRegistry(linkUp, reply, studentRegistry)
          IN /\ studentRegistry' = loaded.registry
             /\ rosterAvailable' = loaded.ok
             /\ status' = IF loaded.ok THEN "Records updated" ELSE "No saved records"
    /\ pc' = "boot_probe"
    /\ UNCHANGED <<uidHex, attempt, response, log, linkUp, display>>
    /\ UNCHANGED <<servicesAvailable, steps, rOp>>
    /\ UNCHANGED <<unitVars, parseVars, srvVars>>

\* setup(): performSanityChecks(), then the idle screen.
BootProbe ==
    /\ pc = "boot_probe"
    /\ \E reply \in ProbeReplies :
          servicesAvailable' = PerformSanityChecks(linkUp, reply)
    /\ status' = IdleStatus(rosterAvailable, servicesAvailable')
    /\ pc' = "idle"
    /\ UNCHANGED <<uidHex, attempt, response, log, linkUp, display>>
    /\ UNCHANGED <<rosterAvailable, steps, cacheVars>>
    /\ UNCHANGED <<unitVars, parseVars, srvVars>>

\* loop(): the link is down at the top of the loop; connectToWiFi is called
\* and loop() returns without reading a card when it fails.
LoopReconnect ==
    /\ pc = "idle"
    /\ ~linkUp
    /\ \E joinable \in JoinableSets : linkUp' = ConnectToWiFi(joinable)
    /\ status' = IF linkUp' THEN IdleStatus(rosterAvailable, servicesAvailable)
                 ELSE status
    /\ UNCHANGED <<pc, uidHex, attempt, response, log, display>>
    /\ UNCHANGED <<rosterAvailable, servicesAvailable>>
    /\ UNCHANGED <<unitVars, parseVars, srvVars, steps, cacheVars>>

\* A slip of the card read below: cards are read only when the boot checks
\* passed.
TapWhenHealthy ==
    /\ pc = "idle"
    /\ linkUp
    /\ rosterAvailable /\ servicesAvailable
    /\ taps < MaxTaps
    /\ \E card \in Cards : uidHex' = card
    /\ pc' = "attempt"
    /\ attempt' = 0
    /\ response' = DefaultResponse
    /\ log' = <<>>
    /\ display' = "Scanning"
    /\ steps' = <<"read", "Scanning">>
    /\ taps' = taps + 1
    /\ tapChanges' = 0
    /\ UNCHANGED <<linkUp, students, attendance, unregistered, today>>
    /\ UNCHANGED <<unitVars, parseVars, bootVars, cacheVars>>

\* loop(): a card is read; scanning feedback; postScanEvent is entered.
Tap ==
    /\ pc = "idle"
    /\ linkUp
    /\ taps < MaxTaps
    /\ \E card \in Cards : uidHex' = card
    /\ pc' = "attempt"
    /\ attempt' = 0
    /\ response' = DefaultResponse
    /\ log' = <<>>
    /\ display' = "Scanning"
    /\ steps' = <<"read", "Scanning">>
    /\ taps' = taps + 1
    /\ tapChanges' = 0
    /\ UNCHANGED <<linkUp, students, attendance, unregistered, today>>
    /\ UNCHANGED <<unitVars, parseVars, bootVars, cacheVars>>

\* A slip of the iteration below: a failed reconnect returns at once.
AttemptWifiDownAborts ==
    /\ pc = "attempt"
    /\ LoopContinues(attempt)
    /\ ~linkUp
    /\ \E joinable \in JoinableSets : ~ConnectToWiFi(joinable)
    /\ response' = [response EXCEPT !.message = "WiFi down", !.httpCode = 0]
    /\ log' = Append(log, LogEntry("wifi", FALSE, response', 0))
    /\ attempt' = attempt + 1
    /\ pc' = "returned"
    /\ UNCHANGED <<uidHex, linkUp, display>>
    /\ UNCHANGED <<unitVars, parseVars, srvVars, bootVars, steps, cacheVars>>

\* A slip of the iteration below: the status code of the attempt before
\* is left in the response.
AttemptWifiDownKeepsCode ==
    /\ pc = "attempt"
    /\ LoopContinues(attempt)
    /\ ~linkUp
    /\ \E joinable \in JoinableSets : ~ConnectToWiFi(joinable)
    /\ response' = [response EXCEPT !.message = "WiFi down"]
    /\ log' = Append(log, LogEntry("wifi", FALSE, response', 0))
    /\ attempt' = attempt + 1
    /\ UNCHANGED <<pc, uidHex, linkUp, display>>
    /\ UNCHANGED <<unitVars, parseVars, srvVars, bootVars, steps, cacheVars>>

\* One iteration in which the link is down and connectToWiFi() fails.
AttemptWifiDown ==
    /\ pc = "attempt"
    /\ LoopContinues(attempt)
    /\ ~linkUp
    /\ \E joinable \in JoinableSets : ~ConnectToWiFi(joinable)
    /\ response' = [response EXCEPT !.message = "WiFi down", !.httpCode = 0]
    /\ log' = Append(log, LogEntry("wifi", FALSE, response', 0))
    /\ attempt' = attempt + 1
    /\ UNCHANGED <<pc, uidHex, linkUp, display>>
    /\ UNCHANGED <<unitVars, parseVars, srvVars, bootVars, steps, cacheVars>>

\* The link is up at the top of the iteration, or connectToWiFi() restores it.
LinkForAttempt ==
    linkUp \/ \E joinable \in JoinableSets : ConnectToWiFi(joinable)

\* One iteration in which http.begin fails.
AttemptBeginFails ==
    /\ pc = "attempt"
    /\ LoopContinues(attempt)
    /\ LinkForAttempt
    /\ linkUp' = TRUE
    /\ response' = [response EXCEPT !.message = "Bad URL", !.httpCode = 0]
    /\ log' = Append(log, LogEntry("begin", FALSE, response', 600))
    /\ attempt' = attempt + 1
    /\ UNCHANGED <<pc, uidHex, display>>
    /\ UNCHANGED <<unitVars, parseVars, srvVars, bootVars, steps, cacheVars>>

\* A slip of the tail below: a success does not leave the loop.
AfterReplyNoReturn(code, body, delivered) ==
    /\ response' = ParseApiResponse(code, body)
    /\ log' = Append(log, LogEntry("post", delivered, response', 800))
    /\ pc' = pc
    /\ attempt' = attempt + 1

\* The tail of an iteration once the reply (code, body) is in hand:
\* classification, then return on success, or backoff and the next iteration.
AfterReply(code, body, delivered) ==
    /\ response' = ParseApiResponse(code, body)
    /\ log' = Append(log, LogEntry("post", delivered, response',
                                   IF response'.success THEN 0 ELSE 800))
    /\ IF response'.success
         THEN pc' = "returned" /\ attempt' = attempt
         ELSE pc' = pc /\ attempt' = attempt + 1

\* One iteration that posts the payload; the endpoint handles the request
\* when it arrives, and the reply may or may not come back.
AttemptPost ==
    /\ pc = "attempt"
    /\ LoopContinues(attempt)
    /\ LinkForAttempt
    /\ linkUp' = TRUE
    /\ \/ \E r \in UndeliveredReplies :
            /\ AfterReply(r.code, r.body, FALSE)
            /\ UNCHANGED <<attendance, unregistered, tapChanges>>
       \/ LET done == DoPostScan(uidHex)
          IN /\ attendance' = done.attendance
             /\ unregistered' = done.unregistered
             /\ tapChanges' = tapChanges + done.changes
             /\ \/ AfterReply(HTTP_CODE_OK, done.body, TRUE)
                \/ \E r \in LostReplies : AfterReply(r.code, r.body, TRUE)
    /\ UNCHANGED <<uidHex, display, students, today, taps>>
    /\ UNCHANGED <<unitVars, parseVars, bootVars, steps, cacheVars>>

\* A slip of the return below: the loop is left only with a success.
ReturnExhaustedOnSuccess ==
    /\ pc = "attempt"
    /\ ~LoopContinues(attempt)
    /\ response.success
    /\ pc' = "returned"
    /\ UNCHANGED <<uidHex, attempt, response, log, linkUp, display>>
    /\ UNCHANGED <<unitVars, parseVars, srvVars, bootVars, steps, cacheVars>>

\* The for loop ends without a success: return response.
ReturnExhausted ==
    /\ pc = "attempt"
    /\ ~LoopContinues(attempt)
    /\ pc' = "returned"
    /\ UNCHANGED <<uidHex, attempt, response, log, linkUp, display>>
    /\ UNCHANGED <<unitVars, parseVars, srvVars, bootVars, steps, cacheVars>>

\* A slip of the tail below: the error branch is not closed by an else, so
\* the action chain runs after it as well.
LoopTailNoElse(res, upserted) ==
    (IF upserted THEN <<"upsert">> ELSE <<>>)
    \o (IF res.success THEN <<PresentTitle(res)>> ELSE <<"Error", "Recorded">>)
    \o <<"halt", "debounce", "status">>

\* A slip of the tail below: loop() returns right after the error feedback.
LoopTailErrorReturns(res, upserted) ==
    (IF upserted THEN <<"upsert">> ELSE <<>>)
    \o <<PresentTitle(res)>>
    \o (IF res.success THEN <<"halt", "debounce", "status">> ELSE <<>>)

\* loop() after postScanEvent has returned res: the cache upsert when its
\* condition holds, one outcome feedback, PICC_HaltA/PCD_StopCrypto1,
\* delay(1200), the idle status line.
LoopTail(res, upserted) ==
    (IF upserted THEN <<"upsert">> ELSE <<>>)
    \o <<PresentTitle(res)>>
    \o <<"halt", "debounce", "status">>

\* A slip of the tail below: the outcome of the scan is taken as the health
\* of the endpoint.
PresentRefreshesServices ==
    /\ pc = "returned"
    /\ studentRegistry' = RegistryAfterScan(studentRegistry, uidHex, response)
    /\ steps' = steps \o LoopTail(response,
                     ShouldUpsert(response, ResolveNames(studentRegistry,
                         RegistryFind(studentRegistry, uidHex), response)))
    /\ display' = PresentTitle(response)
    /\ servicesAvailable' = response.success
    /\ status' = IdleStatus(rosterAvailable, servicesAvailable')
    /\ pc' = "idle"
    /\ uidHex' = "" /\ attempt' = 0 /\ response' = DefaultResponse /\ log' = <<>>
    /\ UNCHANGED <<linkUp, rosterAvailable, rOp>>
    /\ UNCHANGED <<unitVars, parseVars, srvVars>>

\* loop(): name resolution, cache update, outcome feedback, halt, debounce,
\* back to idle; the locals of this call of loop() are gone.
Present ==
    /\ pc = "returned"
    /\ studentRegistry' = RegistryAfterScan(studentRegistry, uidHex, response)
    /\ steps' = steps \o LoopTail(response,
                     ShouldUpsert(response, ResolveNames(studentRegistry,
                         RegistryFind(studentRegistry, uidHex), response)))
    /\ display' = PresentTitle(response)
    /\ status' = IdleStatus(rosterAvailable, servicesAvailable)
    /\ pc' = "idle"
    /\ uidHex' = "" /\ attempt' = 0 /\ response' = DefaultResponse /\ log' = <<>>
    /\ UNCHANGED <<linkUp, rosterAvailable, servicesAvailable, rOp>>
    /\ UNCHANGED <<unitVars, parseVars, srvVars>>

\* The access point goes away.
LinkDrop ==
    /\ linkUp
    /\ pc \in {"boot_roster", "boot_probe", "idle", "attempt"}
    /\ linkUp' = FALSE
    /\ UNCHANGED <<pc, uidHex, attempt, response, log, display>>
    /\ UNCHANGED <<unitVars, parseVars, srvVars, bootVars, steps, cacheVars>>

\* Midnight at the endpoint, between two taps.
DayPasses ==
    /\ today < MaxDay
    /\ pc = "idle"
    /\ today' = today + 1
    /\ UNCHANGED <<students, attendance, unregistered, tapChanges, taps>>
    /\ UNCHANGED <<unitVars, parseVars, devVars, bootVars, steps, cacheVars>>

ParseIdle ==
    /\ pHttpCode = 0 /\ pBody = "" /\ pRes = DefaultResponse /\ pDone = FALSE

NoOp == [op |-> "none", n |-> 0]

\* doPost has not been called.
NoRequest == [action |-> "", uid |-> ""]

\* No health probe has run.
NoProbe ==
    [reply |-> [begun |-> FALSE, code |-> 0], done |-> FALSE,
     sent |-> FALSE, ok |-> FALSE]

\* doPost executions that may run at the same time.
MaxClients == 2

Clients == 1..MaxClients

\* An execution slot in which no doPost is running.
NoCall ==
    [pc |-> "none", uid |-> "", student |-> NoStudent, openRow |-> 0,
     reply |-> "", wrote |-> FALSE, timedOut |-> FALSE]

\* const state = { students: [], attendance: [], unregistered: [], ... }
NoSnap == [students |-> <<>>, attendance |-> <<>>, unregistered |-> <<>>]

\* The globals before setup() runs.
DevInit ==
    /\ pc = "boot"
    /\ uidHex = ""
    /\ attempt = 0
    /\ response = DefaultResponse
    /\ log = <<>>
    /\ linkUp = FALSE
    /\ display = "Starting"
    /\ rosterAvailable = FALSE
    /\ servicesAvailable = FALSE
    /\ status = ""
    /\ steps = <<>>
    /\ studentRegistry = <<>>
    /\ rOp = NoOp
    /\ wPc = "idle"
    /\ scan = <<>>
    /\ detected = <<>>
    /\ priority = <<>>
    /\ wIdx = 0
    /\ wAttempts = 0
    /\ wTried = <<>>
    /\ wConnected = FALSE
    /\ tPc = "idle"
    /\ tCaller = "setup"
    /\ now = 0
    /\ guard = 0
    /\ timedOut = FALSE
    /\ isoTimestamp = ""
    /\ probe = NoProbe
    /\ srvRequest = NoRequest
    /\ srvReply = ""
    /\ registers = 0
    /\ scanLog = <<>>
    /\ lock = 0
    /\ calls = [c \in Clients |-> NoCall]
    /\ loading = FALSE
    /\ dashState = NoSnap
    /\ fetches = <<>>
    /\ regPc = "idle"
    /\ lastLoad = "none"

SrvInit ==
    /\ students = <<[CARD_UID |-> "04A1B2C3", SUID |-> "S1",
                     FirstName |-> "Asha", LastName |-> "Rao"]>>
    /\ attendance = <<>>
    /\ unregistered = <<>>
    /\ today = 1
    /\ tapChanges = 0
    /\ taps = 0

Init == ParseIdle /\ DevInit /\ SrvInit

Next ==
    \/ BootConnect
    \/ BootRoster
    \/ BootProbe
    \/ LoopReconnect
    \/ Tap
    \/ AttemptWifiDown
    \/ AttemptBeginFails
    \/ AttemptPost
    \/ ReturnExhausted
    \/ Present
    \/ LinkDrop
    \/ DayPasses

Spec == Init /\ [][Next]_vars

\* The steps of postScanEvent and of the tail of loop(): each of them ends,
\* every network call returning within its timeout.
DeviceStep ==
    \/ AttemptWifiDown
    \/ AttemptBeginFails
    \/ AttemptPost
    \/ ReturnExhausted
    \/ Present

\* The terminal on one day of the endpoint: the date plays no part in how a
\* tap ends.
NextLive ==
    \/ BootConnect
    \/ BootRoster
    \/ BootProbe
    \/ LoopReconnect
    \/ Tap
    \/ DeviceStep
    \/ LinkDrop

SpecLive == Init /\ [][NextLive]_vars /\ WF_vars(DeviceStep)

----------------------------------------------------------------------------
(* Submission pipeline claims, checked under Spec *)

Attempts == 1..Len(log)

\* postScanEvent has returned for the current tap.
Returned == pc = "returned"

\* C1: postScanEvent never performs more than 3 submission attempts for one
\* tap; when every attempt fails it performs exactly 3 attempts and returns a
\* Failed outcome (success = false).
C1_AtMostThreeAttempts ==
    /\ Len(log) <= 3
    /\ attempt <= 3
    /\ Returned /\ (\A i \in Attempts : ~log[i].res.success) =>
          /\ Len(log) = 3
          /\ ~response.success

\* Three consecutive transport failures, then the return.
C1_Witness ==
    /\ Returned
    /\ Len(log) = 3
    /\ \A i \in Attempts : log[i].kind = "post" /\ log[i].res.httpCode = -1
    /\ ~response.success

\* C2: a success short-circuits the retries. The attempt classified as a
\* success is the last one of its tap: postScanEvent has returned that
\* attempt's outcome, with no backoff and no later attempt.
C2_SuccessShortCircuits ==
    \A i \in Attempts :
        log[i].res.success =>
            /\ i = Len(log)
            /\ pc \in {"returned", "idle"}
            /\ response = log[i].res
            /\ log[i].delay = 0

\* A failed attempt, then a successful second one, and the return.
C2_Witness ==
    /\ Returned
    /\ Len(log) = 2
    /\ ~log[1].res.success
    /\ log[2].res.success
    /\ response.action = "checkin"

\* C3: one tap, at most one attendance change at the endpoint (a check-in
\* row appended or a check-out set), over all the attempts made for it.
C3_OneChangePerTap == tapChanges <= 1

\* C4: a failed reconnect is one failed attempt, not an early abort: it
\* leaves a Failed "WiFi down" response and counts in the loop counter; when
\* it happens before the third attempt the loop goes on, and postScanEvent
\* never returns short of 3 attempts without a success.
C4_ReconnectFailureIsAnAttempt ==
    /\ \A i \in Attempts :
          log[i].kind = "wifi" =>
              /\ ~log[i].res.success
              /\ log[i].res.message = "WiFi down"
              /\ ~log[i].delivered
    /\ (Len(log) > 0 /\ log[Len(log)].kind = "wifi") =>
          /\ attempt = Len(log)
          /\ Len(log) < 3 => pc = "attempt"
    /\ (pc \in {"returned", "idle"} /\ \E i \in Attempts : log[i].kind = "wifi") =>
          \/ Len(log) = 3
          \/ log[Len(log)].res.success

\* The reconnect fails at attempt 1, succeeds at attempt 2, and the request
\* of attempt 2 reaches the endpoint.
C4_Witness ==
    /\ Len(log) >= 2
    /\ log[1].kind = "wifi"
    /\ log[2].kind = "post"
    /\ log[2].delivered
    /\ tapChanges = 1

----------------------------------------------------------------------------
(* Control loop claims, checked under Spec and SpecLive *)

\* setup() has finished with at least one of the two boot checks failed.
Limited == pc \notin {"boot", "boot_roster", "boot_probe"}
           /\ ~(rosterAvailable /\ servicesAvailable)

InPipeline == pc \in {"attempt", "returned"}

Feedbacks ==
    {"Check-in", "Check-out", "Already out", "Unknown card", "Recorded", "Error"}

\* How many entries of seq lie in S.
CountIn(seq, S) == Cardinality({i \in 1..Len(seq) : seq[i] \in S})

\* C12: one tap read, one outcome, presented once. While postScanEvent runs
\* nothing has been presented and no card can be read; postScanEvent returns
\* only with a success or after its last attempt; once loop() is back at
\* idle exactly one of the six feedback screens has been shown for the tap.
C12_OneOutcomePresentedOnce ==
    /\ InPipeline =>
          /\ steps = <<"read", "Scanning">>
          /\ ~ENABLED Tap
    /\ Returned => response.success \/ attempt = kMaxPostRetries
    /\ (pc = "idle" /\ steps # <<>>) =>
          /\ CountIn(steps, {"read"}) = 1
          /\ CountIn(steps, Feedbacks) = 1
          /\ \E i \in 1..Len(steps) : steps[i] = display

\* A failed tap back at idle: read, scanning screen, Error screen, release.
C12_Witness ==
    /\ pc = "idle"
    /\ taps < MaxTaps
    /\ steps = <<"read", "Scanning", "Error", "halt", "debounce", "status">>

\* C13: whatever the outcome, once loop() is back at idle after a tap the
\* card was halted once and the debounce delay applied once, in this order
\* and after the feedback; neither happens while postScanEvent runs.
C13_HaltAndDebounceOnce ==
    /\ InPipeline => CountIn(steps, {"halt", "debounce"}) = 0
    /\ (pc = "idle" /\ steps # <<>>) =>
          /\ CountIn(steps, {"halt"}) = 1
          /\ CountIn(steps, {"debounce"}) = 1
          /\ Len(steps) >= 4
          /\ steps[Len(steps) - 3] \in Feedbacks
          /\ steps[Len(steps) - 2] = "halt"
          /\ steps[Len(steps) - 1] = "debounce"
          /\ steps[Len(steps)] = "status"

\* A check-in that updated the cache, back at idle with the card released.
C13_Witness ==
    /\ pc = "idle"
    /\ steps = <<"read", "Scanning", "upsert", "Check-in", "halt", "debounce", "status">>

C19_FailedLoadLeavesEmptyCache ==
    /\ pc = "boot_roster" =>
          \A reply \in RosterReplies :
              LET loaded == LoadStudentRegistry(linkUp, reply, studentRegistry)
              IN /\ (~linkUp \/ ~reply.begun \/ reply.code < 200 \/ reply.code >= 300
                     \/ reply.body = "" \/ ParseRosterFrom(reply.body, 0, <<>>) = <<>>)
                        => ~loaded.ok
                 /\ ~loaded.ok => loaded.registry = <<>>
    /\ (pc = "boot_probe" /\ ~rosterAvailable) =>
          /\ studentRegistry = <<>>
          /\ status = "No saved records"
          /\ ENABLED BootProbe
    /\ (pc = "boot_probe" /\ rosterAvailable) =>
          /\ studentRegistry # <<>>
          /\ status = "Records updated"

\* The load failed with the link up, the probe passed, loop() is running.
C19_Witness ==
    /\ pc = "idle"
    /\ ~rosterAvailable
    /\ servicesAvailable
    /\ studentRegistry = <<>>
    /\ status = "Limited mode"

----------------------------------------------------------------------------
(* SpecRoster: the roster cache under a load followed by cache operations *)

Row(uid, firstName, lastName) ==
    [uid |-> uid, firstName |-> firstName, lastName |-> lastName]

\* Lines a roster feed is made of. Each comes with what it is (a data row
\* with an identifier and a first name, a blank line, a comment, a header, a
\* row without identifier, a row without first name) and, for a data row,
\* with the entry it stands for.
FeedLines ==
    <<[text |-> "AB12,John,",      kind |-> "row",     row |-> Row("AB12", "John", "")],
      [text |-> "ab12,Jane,Roe",   kind |-> "row",     row |-> Row("AB12", "Jane", "Roe")],
      [text |-> " 0c9f , Asha , Rao \r", kind |-> "row", row |-> Row("0C9F", "Asha", "Rao")],
      [text |-> "7E10,Li",         kind |-> "row",     row |-> Row("7E10", "Li", "")],
      [text |-> "",                kind |-> "blank",   row |-> NoRow],
      [text |-> " # AB12,John,Doe", kind |-> "comment", row |-> NoRow],
      [text |-> "CARD_UID,FirstName,LastName", kind |-> "header", row |-> NoRow],
      [text |-> "uid,first,last",  kind |-> "header",  row |-> NoRow],
      [text |-> ",NoId,X",         kind |-> "noId",    row |-> NoRow],
      [text |-> "CD34,,Doe",       kind |-> "noFirst", row |-> NoRow],
      [text |-> "EF56",            kind |-> "noFirst", row |-> NoRow]>>

\* A feed: the indices of its lines.
Feeds == UNION {[1..n -> 1..Len(FeedLines)] : n \in 0..MaxLines}

\* The text of a feed, its lines separated by line feeds.
RECURSIVE FeedBody(_)
FeedBody(ls) ==
    IF Len(ls) = 0 THEN ""
    ELSE IF Len(ls) = 1 THEN FeedLines[ls[1]].text
    ELSE FeedLines[ls[1]].text \o "\n" \o FeedBody(Tail(ls))

\* Identifiers and names handed to upsert, identifiers handed to find.
UpsertUids == {"AB12", "0C9F", "FFFF", ""}
UpsertFirstNames == {"Jon", ""}
UpsertLastNames == {"Poe", ""}
FindUids == {"AB12", "ab12", "0C9F", "0c9f", "FFFF"}

\* Cards scanned, and replies to the scan as the terminal may receive them.
ScanUids == {"AB12", "FFFF"}
ScanReplies ==
    {[code |-> 200, body |-> JsonAttendance("checkin", IsoOfDay(1), "Asha", "Asha Rao")],
     [code |-> 200, body |-> JsonAttendance("checkout", IsoOfDay(1), "", "Mo Salah Jr")],
     [code |-> 200, body |-> JsonAttendance("alreadyCheckedOut", IsoOfDay(1), "", "")],
     [code |-> 200, body |-> JsonUnregistered(IsoOfDay(1))],
     [code |-> 200, body |-> JsonAttendance("unregistered", IsoOfDay(1), "Zed", "Zed Orr")],
     [code |-> 200, body |-> JsonError("Sheet not found")],
     [code |-> -1, body |-> ""]}

InitRoster == ParseIdle /\ DevInit /\ SrvInit

\* parseStudentRegistry on the body of a feed.
RosterLoad ==
    /\ rOp.op = "none"
    /\ \E ls \in Feeds :
          LET parsed == ParseStudentRegistry(FeedBody(ls))
          IN /\ studentRegistry' = parsed.registry
             /\ rOp' = [op |-> "load", n |-> 0, lines |-> ls, ok |-> parsed.ok]
    /\ UNCHANGED <<unitVars, parseVars, devVars, bootVars, steps, srvVars>>

\* upsertStudentCacheRecord(uid, firstName, lastName)
RosterUpsert ==
    /\ rOp.op # "none"
    /\ rOp.n < MaxOps
    /\ \E uid \in UpsertUids, firstName \in UpsertFirstNames,
          lastName \in UpsertLastNames :
          /\ studentRegistry' =
                 UpsertStudentCacheRecord(studentRegistry, uid, firstName, lastName)
          /\ rOp' = [op |-> "upsert", n |-> rOp.n + 1, uid |-> uid,
                     firstName |-> firstName, lastName |-> lastName,
                     before |-> studentRegistry]
    /\ UNCHANGED <<unitVars, parseVars, devVars, bootVars, steps, srvVars>>

\* findStudentByUid(uid)
RosterFind ==
    /\ rOp.op # "none"
    /\ rOp.n < MaxOps
    /\ \E uid \in FindUids :
          rOp' = [op |-> "find", n |-> rOp.n + 1, uid |-> uid,
                  idx |-> RegistryFind(studentRegistry, uid)]
    /\ UNCHANGED studentRegistry
    /\ UNCHANGED <<unitVars, parseVars, devVars, bootVars, steps, srvVars>>

\* loop() from the card read to the cache update, for one reply.
RosterScan ==
    /\ rOp.op # "none"
    /\ rOp.n < MaxOps
    /\ \E uid \in ScanUids, reply \in ScanReplies :
          LET res == ParseApiResponse(reply.code, reply.body)
          IN /\ studentRegistry' = RegistryAfterScan(studentRegistry, uid, res)
             /\ rOp' = [op |-> "scan", n |-> rOp.n + 1, uid |-> uid, res |-> res,
                        names |-> ResolveNames(studentRegistry,
                                     RegistryFind(studentRegistry, uid), res),
                        before |-> studentRegistry]
    /\ UNCHANGED <<unitVars, parseVars, devVars, bootVars, steps, srvVars>>

NextRoster ==
    \/ RosterLoad
    \/ RosterUpsert
    \/ RosterFind
    \/ RosterScan

SpecRoster == InitRoster /\ [][NextRoster]_vars

----------------------------------------------------------------------------
(* Roster cache claims, checked under SpecRoster *)

Entries == 1..Len(studentRegistry)

\* C15: no two entries of the cache carry the same identifier.
C15_UniqueIdentifiers ==
    \A i, j \in Entries :
        i # j => studentRegistry[i].uid # studentRegistry[j].uid

\* The entries of before other than the k-th are the same in after.
OthersUnchanged(before, after, k) ==
    \A j \in 1..Len(before) : j # k => after[j] = before[j]

\* C16: upsert with an identifier and a first name. When the identifier is
\* in the cache, its entry gets the new first name and keeps its last name
\* unless a non-empty one is supplied, and no entry is added; when it is
\* not, exactly one entry is added, with the three values given; every other
\* entry is as before. (Without an identifier or a first name upsert
\* changes nothing.)
C16_UpsertEffect ==
    rOp.op = "upsert" =>
        LET before == rOp.before
            k == RegistryFind(before, rOp.uid)
        IN IF rOp.uid = "" \/ rOp.firstName = "" THEN studentRegistry = before
           ELSE IF k # 0
             THEN /\ Len(studentRegistry) = Len(before)
                  /\ studentRegistry[k].uid = rOp.uid
                  /\ studentRegistry[k].firstName = rOp.firstName
                  /\ studentRegistry[k].lastName =
                         (IF rOp.lastName # "" THEN rOp.lastName
                          ELSE before[k].lastName)
                  /\ before[k].lastName # "" => studentRegistry[k].lastName # ""
                  /\ OthersUnchanged(before, studentRegistry, k)
           ELSE /\ Len(studentRegistry) = Len(before) + 1
                /\ studentRegistry[Len(studentRegistry)] =
                       Row(rOp.uid, rOp.firstName, rOp.lastName)
                /\ OthersUnchanged(before, studentRegistry, 0)

\* An entry with a last name is upserted with a new first name and an empty
\* last name: the first name is replaced, the last name kept.
C16_Witness ==
    /\ rOp.op = "upsert"
    /\ rOp.uid = "AB12" /\ rOp.firstName = "Jon" /\ rOp.lastName = ""
    /\ rOp.before = <<Row("AB12", "Jane", "Roe")>>
    /\ studentRegistry = <<Row("AB12", "Jon", "Roe")>>

IsRow(line) == line.kind = "row"

\* The entries a feed stands for: those of its data rows, in feed order.
ExpectedRows(ls) ==
    LET rows == SelectSeq([i \in 1..Len(ls) |-> FeedLines[ls[i]]], IsRow)
    IN [i \in 1..Len(rows) |-> rows[i].row]

\* C18: each line of the feed is judged on its own. After a load the cache
\* holds exactly the entries of the data rows of the feed (lines that are
\* not blank, comment or header and have an identifier and a first name), in
\* feed order, a row without last name with lastName "", whatever other
\* lines the feed has; the load succeeds when there is at least one of them.
C18_LinesJudgedIndependently ==
    rOp.op = "load" =>
        /\ studentRegistry = ExpectedRows(rOp.lines)
        /\ rOp.ok = (ExpectedRows(rOp.lines) # <<>>)

\* "AB12,John," is imported with an empty last name next to a discarded row.
C18_Witness ==
    /\ rOp.op = "load"
    /\ Len(rOp.lines) = 2
    /\ FeedLines[rOp.lines[1]].kind = "noId"
    /\ FeedLines[rOp.lines[2]].text = "AB12,John,"
    /\ studentRegistry = <<Row("AB12", "John", "")>>

\* C20: a scan changes the cache only when its outcome is a success other
\* than unregistered and a first name was resolved; then the entry of the
\* card carries that first name. A Failed or unregistered outcome, or no
\* first name, leaves the cache as it was.
C20_CacheUpdateAfterScan ==
    rOp.op = "scan" =>
        LET updating == /\ rOp.res.success
                        /\ rOp.res.action # "unregistered"
                        /\ rOp.names.firstName # ""
            k == RegistryFind(studentRegistry, rOp.uid)
        IN /\ ~updating => studentRegistry = rOp.before
           /\ updating =>
                 /\ k # 0
                 /\ studentRegistry[k].firstName = rOp.names.firstName
                 /\ studentRegistry =
                        UpsertStudentCacheRecord(rOp.before, rOp.uid,
                            rOp.names.firstName, rOp.names.lastName)

\* A check-out whose reply has a full name only: the first name is split
\* off it, the rest is the last name, and the card gets a cache entry.
C20_Witness ==
    /\ rOp.op = "scan"
    /\ rOp.res.action = "checkout"
    /\ rOp.uid = "FFFF"
    /\ RegistryFind(rOp.before, "FFFF") = 0
    /\ RegistryFind(studentRegistry, "FFFF") # 0
    /\ studentRegistry[RegistryFind(studentRegistry, "FFFF")] =
           Row("FFFF", "Mo", "Salah Jr")

----------------------------------------------------------------------------
(* SpecParse: parseApiResponse on bounded inputs *)

\* Pieces of reply text: the markers and tokens the classifier looks for, a
\* bare "unregistered", message and name fields, a message key without a
\* value, an action the terminal does not know, and a pretty-printed status.
Fragments ==
    {OkMarker,
     ErrorMarker,
     "\"action\":\"checkin\"",
     "\"action\":\"checkout\"",
     "\"action\":\"alreadyCheckedOut\"",
     "\"action\":\"unregistered\"",
     "\"action\":\"register\"",
     "unregistered",
     "\"message\":\"Sheet not found: Students\"",
     "\"message\":",
     "\"firstName\":\"Asha\"",
     "\"status\": \"ok\""}

RECURSIVE BodiesOfLen(_)
BodiesOfLen(k) ==
    IF k = 0 THEN {""}
    ELSE {b \o f : b \in BodiesOfLen(k - 1), f \in Fragments}

Bodies == UNION {BodiesOfLen(k) : k \in 0..MaxFrags}

\* Transport errors, 200, another 2xx, a redirect, a server error.
HttpCodes == {-11, -1, 0, 200, 201, 302, 500}

InitParse ==
    /\ pHttpCode \in HttpCodes
    /\ pBody \in Bodies
    /\ pRes = DefaultResponse
    /\ pDone = FALSE
    /\ DevInit
    /\ SrvInit

\* response = parseApiResponse(httpCode, body)
Classify ==
    /\ ~pDone
    /\ pRes' = ParseApiResponse(pHttpCode, pBody)
    /\ pDone' = TRUE
    /\ UNCHANGED <<pHttpCode, pBody>>
    /\ UNCHANGED <<unitVars, devVars, srvVars, bootVars, steps, cacheVars>>

NextParse == Classify

SpecParse == InitParse /\ [][NextParse]_vars

----------------------------------------------------------------------------
(* Classification claims, checked under SpecParse *)

HasOk == Contains(pBody, OkMarker)
HasError == Contains(pBody, ErrorMarker)
HasUnregisteredWord == Contains(pBody, "unregistered")
HasMessageKey == Contains(pBody, "\"message\":")

\* The recognised action tokens present in the body.
TokensInBody ==
    {a \in {"checkin", "checkout", "alreadyCheckedOut", "unregistered"} :
        Contains(pBody, "\"action\":\"" \o a \o "\"")}

\* C5: the HTTP status is checked before the body. A status <= 0 yields
\* Failed with the transport error text and any status other than 200 yields
\* Failed("HTTP <code>"), whatever the body contains; no such reply is a
\* success, not even one whose body has the success marker or "unregistered".
C5_StatusBeforeBody ==
    pDone /\ pHttpCode # 200 =>
        /\ ~pRes.success
        /\ pRes.action = ""
        /\ pRes.httpCode = pHttpCode
        /\ pRes.message =
              CASE pHttpCode = -11 -> "read Timeout"
                [] pHttpCode = -1 -> "connection failed"
                [] pHttpCode = 0 -> ""
                [] pHttpCode = 201 -> "HTTP 201"
                [] pHttpCode = 302 -> "HTTP 302"
                [] pHttpCode = 500 -> "HTTP 500"
                [] OTHER -> IF pHttpCode < 0 THEN ErrorToString(pHttpCode)
                            ELSE "HTTP " \o ToDecimal(pHttpCode)

C5_Witness ==
    /\ pDone /\ pHttpCode = 500 /\ HasOk /\ HasUnregisteredWord
    /\ pRes.message = "HTTP 500" /\ ~pRes.success

\* C6: HTTP 200 with an empty body is Failed("Empty body"), success = false.
C6_EmptyBody ==
    pDone /\ pHttpCode = 200 /\ Len(pBody) = 0 =>
        pRes = [DefaultResponse EXCEPT !.httpCode = 200, !.message = "Empty body"]

C6_Witness ==
    pDone /\ pHttpCode = 200 /\ pBody = "" /\ pRes.message = "Empty body"

\* C7: an HTTP 200 reply with the success marker is a success, and its action
\* is the embedded action token: checkin, checkout, alreadyCheckedOut or
\* unregistered. The action reported is always a token the body holds, and
\* when the body holds one recognised token that token is the action.
C7_ActionToken ==
    pDone /\ pHttpCode = 200 /\ HasOk =>
        /\ pRes.success
        /\ pRes.message = ""
        /\ pRes.action \in TokensInBody \cup {"acknowledged"}
        /\ \A a \in TokensInBody : TokensInBody = {a} => pRes.action = a
        /\ pBody = OkMarker \o "\"action\":\"checkin\"" => pRes.action = "checkin"
        /\ pBody = OkMarker \o "\"action\":\"checkout\"" => pRes.action = "checkout"

C7_Witness ==
    /\ pDone /\ pHttpCode = 200 /\ HasOk
    /\ TokensInBody = {"alreadyCheckedOut"}
    /\ pRes.success /\ pRes.action = "alreadyCheckedOut"

\* C8: an HTTP 200 reply with the success marker and no recognised action
\* token is Acknowledged: success = true, shown as the generic confirmation
\* "Recorded", not as an error.
C8_Acknowledged ==
    pDone /\ pHttpCode = 200 /\ HasOk /\ TokensInBody = {} =>
        /\ pRes.success
        /\ pRes.action = "acknowledged"
        /\ pRes.message = ""
        /\ PresentTitle(pRes) = "Recorded"

C8_Witness ==
    /\ pDone /\ pHttpCode = 200 /\ HasOk /\ TokensInBody = {}
    /\ Contains(pBody, "\"action\":\"register\"") /\ HasUnregisteredWord
    /\ pRes.action = "acknowledged"

\* C9: an HTTP 200 reply with the error marker and without the success
\* marker is Failed with the embedded message, or with "Script error" when
\* none can be extracted; it is never a success, even when the body also
\* contains "unregistered".
C9_ScriptError ==
    pDone /\ pHttpCode = 200 /\ HasError /\ ~HasOk =>
        /\ ~pRes.success
        /\ pRes.action = ""
        /\ ~HasMessageKey => pRes.message = "Script error"
        /\ pRes.message # "Script error" =>
              /\ HasMessageKey
              /\ Contains(pBody, Quote \o pRes.message \o Quote)
        /\ pBody = ErrorMarker \o "\"message\":\"Sheet not found: Students\""
              => pRes.message = "Sheet not found: Students"
        /\ pBody = ErrorMarker \o "\"message\":" => pRes.message = "Script error"

C9_Witness ==
    /\ pDone /\ pHttpCode = 200 /\ HasError /\ ~HasOk /\ HasUnregisteredWord
    /\ ~pRes.success /\ pRes.message = "Sheet not found: Students"

\* C10: an HTTP 200 non-empty reply with neither marker is Unregistered
\* (success = true) when it contains "unregistered", and
\* Failed("Unexpected body") otherwise.
C10_FallbackOrUnexpected ==
    pDone /\ pHttpCode = 200 /\ Len(pBody) > 0 /\ ~HasOk /\ ~HasError =>
        IF HasUnregisteredWord
        THEN pRes = [DefaultResponse EXCEPT !.httpCode = 200, !.success = TRUE,
                                            !.action = "unregistered"]
        ELSE pRes = [DefaultResponse EXCEPT !.httpCode = 200,
                                            !.message = "Unexpected body"]

C10_Witness ==
    /\ pDone /\ pHttpCode = 200 /\ ~HasOk /\ ~HasError
    /\ pBody = "\"status\": \"ok\"" \o "unregistered"
    /\ pRes.success /\ pRes.action = "unregistered"

----------------------------------------------------------------------------
(* connectToWiFi and tryConnectToNetwork *)

\* constexpr uint8_t kWifiMaxRetries
kWifiMaxRetries == 10

\* Scan results one WiFi.scanNetworks() call may report, at most.
MaxScan == 2

\* Network names on the air: two of the known ones and a foreign one.
ScanSsids == {"Shreys-Phone", "Sumits-Phone", "Cafe-Guest"}

\* Signal strengths WiFi.RSSI(idx) may report.
ScanRssi == {-70, -40}

ScanResults ==
    UNION {[1..n -> [ssid : ScanSsids, rssi : ScanRssi]] : n \in 0..MaxScan}

\* scannedSsid == kWifiSsids[knownIdx] for some knownIdx
IsKnownSsid(ssid) == \E knownIdx \in 1..Len(kWifiSsids) : kWifiSsids[knownIdx] = ssid

IsKnownResult(entry) == IsKnownSsid(entry.ssid)

\* The vector detected before sorting: the known entries, in scan order.
Detected(sc) == SelectSeq(sc, IsKnownResult)

\* A slip of the sort below: detected is left in scan order.
SortedAsScanned(det) == {det}

\* std::sort(detected, lhs.rssi > rhs.rssi): some permutation of detected
\* with no entry before a stronger one (the sort is not stable).
SortedByRssi(det) ==
    LET n == Len(det)
        perms == {f \in [1..n -> 1..n] : \A i, j \in 1..n : f[i] = f[j] => i = j}
    IN {[i \in 1..n |-> det[f[i]]] :
            f \in {g \in perms : \A i, j \in 1..n :
                                    i < j => ~(det[g[j]].rssi > det[g[i]].rssi)}}

SsidsOf(det) == [i \in 1..Len(det) |-> det[i].ssid]

InPriority(prio, ssid) == \E i \in 1..Len(prio) : prio[i] = ssid

\* for idx < kWifiNetworkCount: push kWifiSsids[idx] unless std::find has it
RECURSIVE AppendMissing(_, _)
AppendMissing(prio, idx) ==
    IF idx > Len(kWifiSsids) THEN prio
    ELSE IF InPriority(prio, kWifiSsids[idx]) THEN AppendMissing(prio, idx + 1)
    ELSE AppendMissing(Append(prio, kWifiSsids[idx]), idx + 1)

BuildPriority(sorted) == AppendMissing(SsidsOf(sorted), 1)

\* connectToWiFi() up to the candidate loop: disconnect, scan, sort, build
\* the priority vector.
WifiScan ==
    /\ wPc = "idle"
    /\ \E sc \in ScanResults : \E sorted \in SortedByRssi(Detected(sc)) :
        /\ scan' = sc
        /\ detected' = sorted
        /\ priority' = BuildPriority(sorted)
    /\ linkUp' = FALSE
    /\ status' = "Finding networks"
    /\ wIdx' = 1
    /\ wAttempts' = 0
    /\ wTried' = <<>>
    /\ wConnected' = FALSE
    /\ wPc' = "begin"
    /\ UNCHANGED <<pc, uidHex, attempt, response, log, display>>
    /\ UNCHANGED <<rosterAvailable, servicesAvailable, timeVars, probe, reqVars, webVars>>
    /\ UNCHANGED <<parseVars, srvVars, steps, cacheVars>>

\* tryConnectToNetwork(priority[idx]): WiFi.begin, attempts = 0.  The
\* station may already report WL_CONNECTED at the first status read.
WifiBegin ==
    /\ wPc = "begin"
    /\ status' = priority[wIdx]
    /\ wAttempts' = 0
    /\ linkUp' \in BOOLEAN
    /\ wPc' = "poll"
    /\ UNCHANGED <<scan, detected, priority, wIdx, wTried, wConnected>>
    /\ UNCHANGED <<pc, uidHex, attempt, response, log, display>>
    /\ UNCHANGED <<rosterAvailable, servicesAvailable, timeVars, probe, reqVars, webVars>>
    /\ UNCHANGED <<parseVars, srvVars, steps, cacheVars>>

\* One turn of while (status != WL_CONNECTED && attempts < kWifiMaxRetries):
\* count, show, delay(kWifiRetryDelayMs); the station may join meanwhile.
WifiPoll ==
    /\ wPc = "poll"
    /\ ~linkUp
    /\ wAttempts < kWifiMaxRetries
    /\ wAttempts' = wAttempts + 1
    /\ status' = "Attempt " \o ToDecimal(wAttempts + 1) \o "/"
                     \o ToDecimal(kWifiMaxRetries)
    /\ linkUp' \in BOOLEAN
    /\ UNCHANGED <<wPc, scan, detected, priority, wIdx, wTried, wConnected>>
    /\ UNCHANGED <<pc, uidHex, attempt, response, log, display>>
    /\ UNCHANGED <<rosterAvailable, servicesAvailable, timeVars, probe, reqVars, webVars>>
    /\ UNCHANGED <<parseVars, srvVars, steps, cacheVars>>

\* tryConnectToNetwork returns true; connectToWiFi breaks and returns true.
WifiJoined ==
    /\ wPc = "poll"
    /\ linkUp
    /\ wTried' = Append(wTried, [ssid |-> priority[wIdx],
                                 polls |-> wAttempts, joined |-> TRUE])
    /\ status' = "Connected"
    /\ wConnected' = TRUE
    /\ wPc' = "done"
    /\ UNCHANGED <<scan, detected, priority, wIdx, wAttempts>>
    /\ UNCHANGED <<pc, uidHex, attempt, response, log, linkUp, display>>
    /\ UNCHANGED <<rosterAvailable, servicesAvailable, timeVars, probe, reqVars, webVars>>
    /\ UNCHANGED <<parseVars, srvVars, steps, cacheVars>>

\* A slip of the step below: connectToWiFi returns false as soon as one
\* candidate has failed.
WifiGiveUpAtFirstFailure ==
    /\ wPc = "poll"
    /\ ~linkUp
    /\ ~(wAttempts < kWifiMaxRetries)
    /\ wTried' = Append(wTried, [ssid |-> priority[wIdx],
                                 polls |-> wAttempts, joined |-> FALSE])
    /\ linkUp' = FALSE
    /\ wPc' = "done"
    /\ status' = "Network unavailable"
    /\ UNCHANGED wIdx
    /\ UNCHANGED <<scan, detected, priority, wAttempts, wConnected>>
    /\ UNCHANGED <<pc, uidHex, attempt, response, log, display>>
    /\ UNCHANGED <<rosterAvailable, servicesAvailable, timeVars, probe, reqVars, webVars>>
    /\ UNCHANGED <<parseVars, srvVars, steps, cacheVars>>

\* tryConnectToNetwork returns false after kWifiMaxRetries polls:
\* WiFi.disconnect; connectToWiFi moves to the next candidate, or returns
\* false when this was the last one.
WifiGiveUp ==
    /\ wPc = "poll"
    /\ ~linkUp
    /\ ~(wAttempts < kWifiMaxRetries)
    /\ wTried' = Append(wTried, [ssid |-> priority[wIdx],
                                 polls |-> wAttempts, joined |-> FALSE])
    /\ linkUp' = FALSE
    /\ IF wIdx < Len(priority)
       THEN /\ wIdx' = wIdx + 1
            /\ wPc' = "begin"
            /\ status' = "Still searching"
       ELSE /\ wPc' = "done"
            /\ status' = "Network unavailable"
            /\ UNCHANGED wIdx
    /\ UNCHANGED <<scan, detected, priority, wAttempts, wConnected>>
    /\ UNCHANGED <<pc, uidHex, attempt, response, log, display>>
    /\ UNCHANGED <<rosterAvailable, servicesAvailable, timeVars, probe, reqVars, webVars>>
    /\ UNCHANGED <<parseVars, srvVars, steps, cacheVars>>

InitWifi == ParseIdle /\ DevInit /\ SrvInit

NextWifi == WifiScan \/ WifiBegin \/ WifiPoll \/ WifiJoined \/ WifiGiveUp

SpecWifi == InitWifi /\ [][NextWifi]_vars

KnownSsids == {kWifiSsids[k] : k \in 1..Len(kWifiSsids)}

\* The scan results that carry a known network name.
KnownHits == {i \in 1..Len(scan) : scan[i].ssid \in KnownSsids}

SeenKnown == {scan[i].ssid : i \in KnownHits}

DeclIndex(ssid) == CHOOSE k \in 1..Len(kWifiSsids) : kWifiSsids[k] = ssid

\* C21: the candidates are tried in the order of the priority vector; that
\* vector starts with the known networks found by the scan, no entry
\* before a stronger one, and continues with the known networks the scan
\* did not find, in declaration order; with no known network in the scan
\* it is the declaration order.
C21_CandidateOrder ==
    wPc # "idle" =>
        LET k == Cardinality(KnownHits) IN
        /\ Len(wTried) <= Len(priority)
        /\ \A i \in 1..Len(wTried) : wTried[i].ssid = priority[i]
        /\ Len(detected) = k
        /\ \A e \in [ssid : SeenKnown, rssi : ScanRssi] :
              Cardinality({i \in 1..k : detected[i] = e})
                  = Cardinality({i \in KnownHits : scan[i] = e})
        /\ \A i \in 1..k : priority[i] = detected[i].ssid
        /\ \A i, j \in 1..k : i < j => detected[i].rssi >= detected[j].rssi
        /\ {priority[i] : i \in (k + 1)..Len(priority)}
              = KnownSsids \ SeenKnown
        /\ \A i, j \in (k + 1)..Len(priority) :
              i < j => DeclIndex(priority[i]) < DeclIndex(priority[j])
        /\ (SeenKnown = {} => priority = kWifiSsids)

\* A call that tried all five candidates, the later-declared but stronger
\* network first.
C21_Witness ==
    /\ wPc = "done"
    /\ Len(wTried) = 5
    /\ scan = <<[ssid |-> "Shreys-Phone", rssi |-> -70],
                [ssid |-> "Sumits-Phone", rssi |-> -40]>>
    /\ SsidsOf(wTried) = <<"Sumits-Phone", "Shreys-Phone", "Darshans-Phone",
                           "Vaibhavs-Phone", "Someones-Phone">>

\* C22: connectToWiFi returns true at the first candidate that joins and
\* tries none after it; it returns false only when every candidate was
\* polled 10 times without joining; it returns true exactly when the link
\* is up at return.
C22_ReturnValue ==
    /\ \A i \in 1..Len(wTried) :
          wTried[i].joined => i = Len(wTried) /\ wPc = "done" /\ wConnected
    /\ wPc = "done" =>
          /\ wConnected <=> linkUp
          /\ wConnected <=> wTried[Len(wTried)].joined
          /\ ~wConnected =>
                /\ Len(wTried) = Len(priority)
                /\ \A i \in 1..Len(wTried) :
                      wTried[i].polls = 10 /\ ~wTried[i].joined

\* Two candidates exhausted, the third joined at its fourth poll.
C22_Witness ==
    /\ wPc = "done"
    /\ wConnected
    /\ Len(wTried) = 3
    /\ wTried[1].polls = 10
    /\ wTried[3].polls = 4

\* Every candidate exhausted: connectToWiFi returned false.
C22_WitnessFalse ==
    wPc = "done" /\ ~wConnected /\ Len(wTried) = Len(priority)

----------------------------------------------------------------------------
(* ensureTimeSync, and what setup() and loop() do after it *)

\* while (now < 1600000000 && ...)
kSaneEpoch == 1600000000

\* while (... && guard < 60)
kSyncMaxPolls == 60

\* Values time(nullptr) may give: an unset clock, the last second below
\* the threshold, the threshold, a later second.
Epochs == {5, 1599999999, 1600000000, 1600000030}

\* buildIsoTimestamp(): gmtime_r and strftime("%Y-%m-%dT%H:%M:%SZ").
BuildIsoTimestamp(t) ==
    CASE t = 5 -> "1970-01-01T00:00:05Z"
      [] t = 1599999999 -> "2020-09-13T12:26:39Z"
      [] t = 1600000000 -> "2020-09-13T12:26:40Z"
      [] t = 1600000030 -> "2020-09-13T12:27:10Z"

\* The clock does not run backwards between two reads.
LaterEpochs(t) == {e \in Epochs : e >= t}

\* setup() or loop() calls ensureTimeSync: now = time(nullptr), guard = 0.
TimeSyncEnter ==
    /\ tPc = "idle"
    /\ tCaller' \in {"setup", "loop"}
    /\ now' \in Epochs
    /\ guard' = 0
    /\ timedOut' = FALSE
    /\ isoTimestamp' = ""
    /\ tPc' = "sync"
    /\ UNCHANGED <<wifiVars, probe, reqVars, webVars, parseVars, devVars, bootVars, steps>>
    /\ UNCHANGED <<cacheVars, srvVars>>

\* A slip of the turn below: the loop tests the clock only; guard is a
\* uint8_t and wraps.
TimeSyncPollUncapped ==
    /\ tPc = "sync"
    /\ now < kSaneEpoch
    /\ now' \in LaterEpochs(now)
    /\ guard' = (guard + 1) % 256
    /\ UNCHANGED <<tPc, tCaller, timedOut, isoTimestamp>>
    /\ UNCHANGED <<wifiVars, probe, reqVars, webVars, parseVars, devVars, bootVars, steps>>
    /\ UNCHANGED <<cacheVars, srvVars>>

\* One turn of the loop: delay(500), read the clock, guard++.
TimeSyncPoll ==
    /\ tPc = "sync"
    /\ now < kSaneEpoch /\ guard < kSyncMaxPolls
    /\ now' \in LaterEpochs(now)
    /\ guard' = guard + 1
    /\ UNCHANGED <<tPc, tCaller, timedOut, isoTimestamp>>
    /\ UNCHANGED <<wifiVars, probe, reqVars, webVars, parseVars, devVars, bootVars, steps>>
    /\ UNCHANGED <<cacheVars, srvVars>>

\* The loop ends; the timeout warning is logged when guard >= 60.
TimeSyncReturn ==
    /\ tPc = "sync"
    /\ ~(now < kSaneEpoch /\ guard < kSyncMaxPolls)
    /\ timedOut' = (guard >= kSyncMaxPolls)
    /\ tPc' = "synced"
    /\ UNCHANGED <<tCaller, now, guard, isoTimestamp>>
    /\ UNCHANGED <<wifiVars, probe, reqVars, webVars, parseVars, devVars, bootVars, steps>>
    /\ UNCHANGED <<cacheVars, srvVars>>

\* loop(): isoTimestamp = buildIsoTimestamp(), which reads the clock again.
TimeStamp ==
    /\ tPc = "synced"
    /\ tCaller = "loop"
    /\ \E t \in LaterEpochs(now) :
        /\ now' = t
        /\ isoTimestamp' = BuildIsoTimestamp(t)
    /\ tPc' = "stamped"
    /\ UNCHANGED <<tCaller, guard, timedOut>>
    /\ UNCHANGED <<wifiVars, probe, reqVars, webVars, parseVars, devVars, bootVars, steps>>
    /\ UNCHANGED <<cacheVars, srvVars>>

\* loop(): postScanEvent(uidHex, isoTimestamp) is called.
TimeSubmit ==
    /\ tPc = "stamped"
    /\ tPc' = "posted"
    /\ UNCHANGED <<tCaller, now, guard, timedOut, isoTimestamp>>
    /\ UNCHANGED <<wifiVars, probe, reqVars, webVars, parseVars, devVars, bootVars, steps>>
    /\ UNCHANGED <<cacheVars, srvVars>>

\* setup(): displayStatusHold("Updating clock"), then the roster load.
TimeBootGoesOn ==
    /\ tPc = "synced"
    /\ tCaller = "setup"
    /\ status' = "Updating clock"
    /\ tPc' = "roster"
    /\ UNCHANGED <<tCaller, now, guard, timedOut, isoTimestamp>>
    /\ UNCHANGED <<rosterAvailable, servicesAvailable>>
    /\ UNCHANGED <<wifiVars, probe, reqVars, webVars, parseVars, devVars, steps>>
    /\ UNCHANGED <<cacheVars, srvVars>>

InitTime == ParseIdle /\ DevInit /\ SrvInit

NextTime ==
    \/ TimeSyncEnter
    \/ TimeSyncPoll
    \/ TimeSyncReturn
    \/ TimeStamp
    \/ TimeSubmit
    \/ TimeBootGoesOn

SpecTime == InitTime /\ [][NextTime]_vars

\* One flow of control: the step the code stands at is taken.
SpecTimeLive == SpecTime /\ WF_vars(NextTime)

\* C23: ensureTimeSync never polls more than 60 times, and a tap that
\* entered it gets its timestamp and its submission, whether or not the
\* clock passed the threshold.
C23_SyncWaitIsCapped ==
    /\ [](guard <= 60)
    /\ ((tPc = "sync" /\ tCaller = "loop") ~> (tPc = "posted"))

\* A tap submitted after 60 polls with the clock still below the
\* threshold.
C23_Witness ==
    /\ tPc = "posted"
    /\ tCaller = "loop"
    /\ guard = 60
    /\ now < 1600000000
    /\ isoTimestamp = "1970-01-01T00:00:05Z"

----------------------------------------------------------------------------
(* verifyAppsScriptEndpoint on its own *)

\* performSanityChecks calls verifyAppsScriptEndpoint: the link is up or
\* down, and the request will meet one of ProbeReplies.
ProbeEnter ==
    /\ ~probe.done
    /\ probe = NoProbe
    /\ pc = "boot"
    /\ pc' = "boot_probe"
    /\ linkUp' \in BOOLEAN
    /\ \E reply \in ProbeReplies :
          probe' = [reply |-> reply, done |-> FALSE, sent |-> FALSE,
                    ok |-> FALSE]
    /\ UNCHANGED <<uidHex, attempt, response, log, display>>
    /\ UNCHANGED <<wifiVars, timeVars, reqVars, webVars, parseVars, bootVars, steps>>
    /\ UNCHANGED <<cacheVars, srvVars>>

\* verifyAppsScriptEndpoint returns.
ProbeReturn ==
    /\ pc = "boot_probe"
    /\ ~probe.done
    /\ probe' = [probe EXCEPT
                    !.done = TRUE,
                    !.sent = ProbeRequestSent(linkUp, probe.reply),
                    !.ok = VerifyAppsScriptEndpoint(linkUp, probe.reply)]
    /\ UNCHANGED <<wifiVars, timeVars, reqVars, webVars, parseVars, devVars, bootVars, steps>>
    /\ UNCHANGED <<cacheVars, srvVars>>

InitProbe == ParseIdle /\ DevInit /\ SrvInit

NextProbe == ProbeEnter \/ ProbeReturn

SpecProbe == InitProbe /\ [][NextProbe]_vars

\* A response was obtained: the GET was issued and returned a status, not
\* an HTTPClient error.
ProbeGotResponse == probe.sent /\ probe.reply.code > 0

\* C24: the probe succeeds exactly when a response with a status from 200
\* to 399 was obtained; with the link down no request is sent and it fails.
C24_ProbeSucceedsOn2xx3xx ==
    probe.done =>
        /\ probe.ok <=> (/\ ProbeGotResponse
                         /\ probe.reply.code \in 200..399)
        /\ ~linkUp => ~probe.sent /\ ~probe.ok
        /\ probe.reply.code < 0 => ~probe.ok

\* A redirect-class status counted as success.
C24_Witness ==
    probe.done /\ linkUp /\ probe.sent /\ probe.reply.code = 302 /\ probe.ok

\* Link down: nothing sent, probe failed.
C24_WitnessOffline ==
    probe.done /\ ~linkUp /\ ~probe.sent /\ ~probe.ok

----------------------------------------------------------------------------
(* The endpoint on its own: scan and register requests, the roster feed *)

\* Scan requests handled in one behaviour, at most.
MaxSrvScans == 3

\* Register requests handled among the scans of one behaviour, at most.
MaxRegisters == 1

\* Register requests handled in one behaviour of SpecRoundTrip, at most.
MaxRoundTrips == 2

\* JSON.stringify of a string: quotes and backslashes escaped.
RECURSIVE JsonEscape(_)
JsonEscape(str) ==
    IF Len(str) = 0 THEN ""
    ELSE (IF SubSeq(str, 1, 1) \in {"\"", "\\"}
          THEN "\\" \o SubSeq(str, 1, 1)
          ELSE SubSeq(str, 1, 1))
         \o JsonEscape(SubSeq(str, 2, Len(str)))

\* jsonResponse({status: "ok", action: "register", student})
JsonRegister(student) ==
    "{\"status\":\"ok\",\"action\":\"register\",\"student\":{\"CARD_UID\":\""
    \o JsonEscape(student.CARD_UID) \o "\",\"SUID\":\""
    \o JsonEscape(student.SUID) \o "\",\"FirstName\":\""
    \o JsonEscape(student.FirstName) \o "\",\"LastName\":\""
    \o JsonEscape(student.LastName) \o "\"}}"

\* missing.join(", ")
RECURSIVE JoinComma(_)
JoinComma(names) ==
    IF Len(names) = 0 THEN ""
    ELSE IF Len(names) = 1 THEN names[1]
    ELSE names[1] \o ", " \o JoinComma(Tail(names))

\* A slip of upsertStudent: the record is always appended.
UpsertStudentAlwaysAppends(sheet, record) == Append(sheet, record)

\* upsertStudent(sheet, record): the first row whose trimmed, upper-cased
\* CARD_UID is the record's is overwritten; otherwise a row is appended.
UpsertStudent(sheet, record) ==
    LET hits == {i \in 1..Len(sheet) :
                    /\ sheet[i].CARD_UID # ""
                    /\ ToUpperCase(Trim(sheet[i].CARD_UID))
                          = ToUpperCase(record.CARD_UID)}
    IN IF hits = {} THEN Append(sheet, record)
       ELSE [sheet EXCEPT ![Min(hits)] = record]

\* markCardAsRegistered(sheet, cardUid): the first row of the card gets
\* Status "Registered".
MarkCardAsRegistered(sheet, cardUid) ==
    LET hits == {i \in 1..Len(sheet) :
                    /\ sheet[i].CARD_UID # ""
                    /\ ToUpperCase(Trim(sheet[i].CARD_UID)) = cardUid}
    IN IF hits = {} THEN sheet
       ELSE [sheet EXCEPT ![Min(hits)].Status = "Registered"]

\* A slip of the handler below: the sheets are written before the fields
\* are looked at.
HandleRegistrationWritesFirst(data) ==
    LET cardUid == ToUpperCase(Trim(IF data.cardUid # "" THEN data.cardUid
                                    ELSE data.uid))
        suid == Trim(data.suid)
        firstName == Trim(data.firstName)
        lastName == Trim(data.lastName)
        missing ==
            (IF cardUid = "" THEN <<"cardUid">> ELSE <<>>)
            \o (IF suid = "" THEN <<"suid">> ELSE <<>>)
            \o (IF firstName = "" THEN <<"firstName">> ELSE <<>>)
            \o (IF lastName = "" THEN <<"lastName">> ELSE <<>>)
        normalizedStudent ==
            [CARD_UID |-> cardUid, SUID |-> suid, FirstName |-> firstName,
             LastName |-> lastName]
    IN [students |-> UpsertStudent(students, normalizedStudent),
        unregistered |-> MarkCardAsRegistered(unregistered, cardUid),
        body |-> IF Len(missing) > 0
                 THEN JsonError("Missing fields: " \o JoinComma(missing))
                 ELSE JsonRegister(normalizedStudent)]

\* handleRegistration(data) and the reply doPost builds from its result:
\* the sheets after the request and the reply body.  A field the payload
\* does not have reads as "": (data.suid || "") and the like.
HandleRegistration(data) ==
    LET cardUid == ToUpperCase(Trim(IF data.cardUid # "" THEN data.cardUid
                                    ELSE data.uid))
        suid == Trim(data.suid)
        firstName == Trim(data.firstName)
        lastName == Trim(data.lastName)
        missing ==
            (IF cardUid = "" THEN <<"cardUid">> ELSE <<>>)
            \o (IF suid = "" THEN <<"suid">> ELSE <<>>)
            \o (IF firstName = "" THEN <<"firstName">> ELSE <<>>)
            \o (IF lastName = "" THEN <<"lastName">> ELSE <<>>)
        normalizedStudent ==
            [CARD_UID |-> cardUid, SUID |-> suid, FirstName |-> firstName,
             LastName |-> lastName]
    IN IF Len(missing) > 0
       THEN [students |-> students, unregistered |-> unregistered,
             body |-> JsonError("Missing fields: " \o JoinComma(missing))]
       ELSE [students |-> UpsertStudent(students, normalizedStudent),
             unregistered |-> MarkCardAsRegistered(unregistered, cardUid),
             body |-> JsonRegister(normalizedStudent)]

\* Register payloads the dashboard may post.
RegisterPayloads ==
    [cardUid : {"04a1b2c3", " DEADBEEF"}, uid : {""}, suid : {"S2"},
     firstName : {"Mira"}, lastName : {"Shah", "Rao, Jr", ""}]

NoPayload ==
    [cardUid |-> "", uid |-> "", suid |-> "", firstName |-> "",
     lastName |-> ""]

\* doPost for a scan of one of the cards.
SrvScan ==
    /\ taps < MaxSrvScans
    /\ \E uid \in Cards :
          LET done == DoPostScan(uid)
          IN /\ attendance' = done.attendance
             /\ unregistered' = done.unregistered
             /\ srvReply' = done.body
             /\ srvRequest' = [action |-> "scan", uid |-> uid,
                               data |-> NoPayload]
             /\ scanLog' = Append(scanLog, [uid |-> uid, day |-> today,
                                            reply |-> done.body])
    /\ taps' = taps + 1
    /\ UNCHANGED <<students, today, tapChanges, registers>>
    /\ UNCHANGED <<wifiVars, timeVars, probe, webVars, parseVars, devVars, bootVars>>
    /\ UNCHANGED <<steps, cacheVars>>

\* doPost for a register request, the limit-th at most.
SrvRegisterUpTo(limit) ==
    /\ registers < limit
    /\ \E data \in RegisterPayloads :
          LET done == HandleRegistration(data)
          IN /\ students' = done.students
             /\ unregistered' = done.unregistered
             /\ srvReply' = done.body
             /\ srvRequest' = [action |-> "register", uid |-> data.cardUid,
                               data |-> data]
    /\ registers' = registers + 1
    /\ rOp' = NoOp
    /\ UNCHANGED <<attendance, today, tapChanges, taps, scanLog>>
    /\ UNCHANGED <<wifiVars, timeVars, probe, webVars, parseVars, devVars, bootVars>>
    /\ UNCHANGED <<steps, studentRegistry>>

SrvRegister == SrvRegisterUpTo(MaxRegisters)

RoundTripRegister == SrvRegisterUpTo(MaxRoundTrips)

\* The terminal reloads its roster: loadStudentRegistry over a working
\* link, the feed being buildRosterCsv of the Students sheet.
SrvRosterReload ==
    /\ rOp.op = "none"
    /\ LET loaded == LoadStudentRegistry(TRUE,
                        [begun |-> TRUE, code |-> HTTP_CODE_OK,
                         body |-> BuildRosterCsv(students)], studentRegistry)
       IN /\ studentRegistry' = loaded.registry
          /\ rosterAvailable' = loaded.ok
    /\ rOp' = [op |-> "load", n |-> 0]
    /\ UNCHANGED <<servicesAvailable, status>>
    /\ UNCHANGED <<unitVars, parseVars, devVars, steps, srvVars>>

\* Midnight passes at the endpoint.
SrvDayPasses ==
    /\ today < MaxDay
    /\ today' = today + 1
    /\ UNCHANGED <<students, attendance, unregistered, tapChanges, taps>>
    /\ UNCHANGED <<unitVars, parseVars, devVars, bootVars, steps, cacheVars>>

InitServer == ParseIdle /\ DevInit /\ SrvInit

NextServer == SrvScan \/ SrvRegister \/ SrvDayPasses

SpecServer == InitServer /\ [][NextServer]_vars

\* Register requests and roster reloads only.
NextRoundTrip == RoundTripRegister \/ SrvRosterReload

SpecRoundTrip == InitServer /\ [][NextRoundTrip]_vars

\* The identifier under which a card is kept: trimmed, upper case.
NormUid(uid) == ToUpperCase(Trim(uid))

\* The text of body before its first line break, and what follows it.
FirstLine(body) ==
    LET nl == IndexOf(body, "\n", 0)
    IN IF nl = -1 THEN body ELSE Substring(body, 0, nl)

RestLines(body) ==
    LET nl == IndexOf(body, "\n", 0)
    IN IF nl = -1 THEN "" ELSE Substring(body, nl + 1, Len(body))

\* The identifiers of the data rows of a feed, in order.
RECURSIVE FeedUids(_)
FeedUids(body) ==
    IF Len(body) = 0 THEN <<>>
    ELSE LET line == FirstLine(body)
             comma == IndexOf(line, ",", 0)
         IN <<NormUid(IF comma = -1 THEN line ELSE Substring(line, 0, comma))>>
            \o FeedUids(RestLines(body))

NoRepeat(seq) == \A i, j \in 1..Len(seq) : seq[i] = seq[j] => i = j

RegisterAccepted ==
    /\ srvRequest.action = "register"
    /\ Contains(srvReply, "\"status\":\"ok\"")

\* The roster was reloaded after the last request, an accepted register.
ReloadedAfterRegister == RegisterAccepted /\ rOp.op = "load"

\* C25, second half: register requests leave no two rows of the Students
\* sheet, and no two rows of the roster feed, with one identifier.
C25_NoDuplicateRows ==
    /\ NoRepeat([i \in 1..Len(students) |-> NormUid(students[i].CARD_UID)])
    /\ NoRepeat(FeedUids(RestLines(BuildRosterCsv(students))))

\* C25: after an accepted register request and a roster reload the cache
\* holds the registered card exactly once, under its trimmed upper-case
\* identifier and with the names that were registered; and the sheet and
\* the feed hold no identifier twice.
C25_RegisterRoundTrip ==
    /\ C25_NoDuplicateRows
    /\ ReloadedAfterRegister =>
          LET uid == NormUid(srvRequest.data.cardUid)
              hits == {i \in 1..Len(studentRegistry) :
                          studentRegistry[i].uid = uid}
          IN /\ Cardinality(hits) = 1
             /\ \A i \in hits :
                   /\ studentRegistry[i].firstName
                         = Trim(srvRequest.data.firstName)
                   /\ studentRegistry[i].lastName
                         = Trim(srvRequest.data.lastName)

\* C25 for names the feed carries unquoted: identifier once, names kept.
C25_RoundTripPlainNames ==
    (/\ ReloadedAfterRegister
     /\ EscapeCsv(Trim(srvRequest.data.firstName))
           = Trim(srvRequest.data.firstName)
     /\ EscapeCsv(Trim(srvRequest.data.lastName))
           = Trim(srvRequest.data.lastName)) =>
        LET uid == NormUid(srvRequest.data.cardUid)
            hits == {i \in 1..Len(studentRegistry) :
                        studentRegistry[i].uid = uid}
        IN /\ Cardinality(hits) = 1
           /\ \A i \in hits :
                 /\ studentRegistry[i].firstName
                       = Trim(srvRequest.data.firstName)
                 /\ studentRegistry[i].lastName
                       = Trim(srvRequest.data.lastName)

\* An existing card re-registered in lower case, then reloaded.
C25_Witness ==
    /\ ReloadedAfterRegister
    /\ srvRequest.data.cardUid = "04a1b2c3"
    /\ srvRequest.data.lastName = "Shah"
    /\ Len(students) = 1

\* doPost has just handled a scan request.
ScanHandled == taps' = taps + 1 /\ srvRequest'.action = "scan"

\* The rows of sheet that are open sessions of uid on day.
OpenSessions(sheet, uid, day) ==
    {i \in 1..Len(sheet) :
        /\ sheet[i].CARD_UID = uid
        /\ sheet[i].DateKey = day
        /\ sheet[i].CheckInTime # ""
        /\ sheet[i].CheckOutTime = ""}

InStudents(uid) == \E i \in 1..Len(students) : students[i].CARD_UID = uid

ReplyIs(body, action) ==
    /\ Contains(body, "\"status\":\"ok\"")
    /\ Contains(body, "\"action\":\"" \o action \o "\"")

\* The scan of a registered card with no open session today appends one
\* open row for it and replies checkin; with an open session it sets that
\* row's check-out and replies checkout.
OpenSessionRule ==
    (ScanHandled /\ InStudents(srvRequest'.uid)) =>
        LET uid == srvRequest'.uid
            open == OpenSessions(attendance, uid, today)
            n == Len(attendance)
        IN IF open = {}
           THEN /\ Len(attendance') = n + 1
                /\ SubSeq(attendance', 1, n) = attendance
                /\ OpenSessions(attendance', uid, today) = {n + 1}
                /\ ReplyIs(srvReply', "checkin")
           ELSE /\ \E i \in open :
                     /\ attendance'[i].CheckOutTime # ""
                     /\ attendance' = [attendance EXCEPT ![i].CheckOutTime
                                          = attendance'[i].CheckOutTime]
                /\ ReplyIs(srvReply', "checkout")

\* The replies to the scans of uid on day that recorded attendance.
RECURSIVE SessionReplies(_, _, _)
SessionReplies(entries, uid, day) ==
    IF Len(entries) = 0 THEN <<>>
    ELSE (IF /\ entries[1].uid = uid
             /\ entries[1].day = day
             /\ ~ReplyIs(entries[1].reply, "unregistered")
          THEN <<entries[1].reply>> ELSE <<>>)
         \o SessionReplies(Tail(entries), uid, day)

Alternates(replies) ==
    \A k \in 1..Len(replies) :
        ReplyIs(replies[k], IF k % 2 = 1 THEN "checkin" ELSE "checkout")

\* C26: the endpoint follows the open-session rule at every scan of a
\* registered card; so each card has at most one open session per day and
\* its scans of one day are answered checkin, checkout, checkin, ...
C26_OpenSessionRule ==
    /\ [][OpenSessionRule]_vars
    /\ [](\A uid \in Cards, day \in 1..MaxDay :
            /\ Cardinality(OpenSessions(attendance, uid, day)) <= 1
            /\ Alternates(SessionReplies(scanLog, uid, day)))

\* Three scans of one card on one day: in, out, in again.
C26_Witness ==
    /\ Len(SessionReplies(scanLog, "04A1B2C3", 1)) = 3
    /\ Len(attendance) = 2
    /\ attendance[1].CheckOutTime # ""
    /\ OpenSessions(attendance, "04A1B2C3", 1) = {2}

\* C27: the scan of a card with no row in Students appends one Pending row
\* for it to Unregistered_CARDs, is answered ok / unregistered, and leaves
\* Attendance and Students as they were.
C27_UnknownCardScan ==
    [][(ScanHandled /\ ~InStudents(srvRequest'.uid)) =>
          /\ Len(unregistered') = Len(unregistered) + 1
          /\ SubSeq(unregistered', 1, Len(unregistered)) = unregistered
          /\ unregistered'[Len(unregistered')].CARD_UID = srvRequest'.uid
          /\ unregistered'[Len(unregistered')].Status = "Pending"
          /\ ReplyIs(srvReply', "unregistered")
          /\ attendance' = attendance
          /\ students' = students]_vars

\* The unknown card scanned twice, a check-in of the known card between.
C27_Witness ==
    /\ srvRequest.action = "scan"
    /\ srvRequest.uid = "DEADBEEF"
    /\ ReplyIs(srvReply, "unregistered")
    /\ Len(unregistered) = 2
    /\ Len(attendance) = 1

----------------------------------------------------------------------------
(* postScanEvent: the delay between attempts and the outcome after the
   last one, under Spec *)

\* C28: every failed attempt that is followed by another one ends with the
\* same backoff delay, the 800 ms that follow a failed reply.
C28_FixedBackoff ==
    \A i \in 1..(Len(log) - 1) : log[i].delay = 800

\* The reasons parseApiResponse gives for a status code it does not accept.
FailureReasonFits(res) ==
    IF res.httpCode <= 0 THEN res.message = ErrorToString(res.httpCode)
    ELSE IF res.httpCode # 200
      THEN res.message = "HTTP " \o ToDecimal(res.httpCode)
    ELSE res.message # ""

\* C29: when postScanEvent returns after three failed attempts the outcome
\* is Failed and is the one of attempt 3: "WiFi down" with code 0 after a
\* failed reconnect, "Bad URL" with code 0 after a failed http.begin, the
\* classified reply otherwise; no action or name is left in it.
C29_FinalAttemptDescribed ==
    (pc = "returned" /\ Len(log) = 3 /\ ~log[3].res.success) =>
        /\ ~response.success
        /\ response.action = ""
        /\ response.firstName = ""
        /\ response.fullName = ""
        /\ log[3].kind = "wifi" =>
              response.message = "WiFi down" /\ response.httpCode = 0
        /\ log[3].kind = "begin" =>
              response.message = "Bad URL" /\ response.httpCode = 0
        /\ log[3].kind = "post" =>
              response.httpCode # 0 /\ FailureReasonFits(response)

\* Attempt 2 was answered 503, the link dropped, attempt 3 could not
\* reconnect.
C29_Witness ==
    /\ pc = "returned"
    /\ Len(log) = 3
    /\ log[2].kind = "post"
    /\ log[2].res.httpCode = 503
    /\ log[3].kind = "wifi"
    /\ response.message = "WiFi down"
    /\ response.httpCode = 0

----------------------------------------------------------------------------
(* setup() from connectToWiFi to the idle screen, the clock wait included *)

\* setup(): configTime, then ensureTimeSync is entered.
BootTimeSync ==
    /\ pc = "boot_roster"
    /\ tPc = "idle"
    /\ TimeSyncEnter
    /\ tCaller' = "setup"

\* setup(): loadStudentRegistry(), once the clock wait is over.
BootRosterSynced ==
    /\ tPc = "roster"
    /\ BootRoster

\* The steps of setup(): each network call returns within its timeout and
\* each wait loop is taken turn by turn.
BootStep ==
    \/ BootConnect
    \/ BootTimeSync
    \/ TimeSyncPoll
    \/ TimeSyncReturn
    \/ TimeBootGoesOn
    \/ BootRosterSynced
    \/ BootProbe

InitBoot == ParseIdle /\ DevInit /\ SrvInit

NextBoot == BootStep \/ LinkDrop

SpecBoot == InitBoot /\ [][NextBoot]_vars /\ WF_vars(BootStep)

\* C30: when setup() ends the status line is "Ready for scan" exactly when
\* the roster load and the health probe both succeeded, "Limited mode"
\* otherwise; and setup() always ends, whatever failed on the way.
C30_BootAlwaysCompletes ==
    /\ [](pc = "idle" =>
            /\ status \in {"Ready for scan", "Limited mode"}
            /\ status = "Ready for scan"
                  <=> (rosterAvailable /\ servicesAvailable))
    /\ <>(pc = "idle")

\* Boot ended with no network, the clock wait timed out, no roster and no
\* service.
C30_Witness ==
    /\ pc = "idle"
    /\ ~linkUp
    /\ timedOut
    /\ ~rosterAvailable
    /\ ~servicesAvailable
    /\ status = "Limited mode"

\* Boot ended with everything in order.
C30_WitnessReady ==
    /\ pc = "idle"
    /\ rosterAvailable
    /\ servicesAvailable
    /\ ~timedOut
    /\ status = "Ready for scan"

----------------------------------------------------------------------------
(* The idle status after boot, checked under SpecLive *)

\* setup() has returned: loop() is running.
Booted == pc \in {"idle", "attempt", "returned"}

\* Titles of the feedback of a scan the endpoint acknowledged.
AcknowledgedTitles ==
    {"Check-in", "Check-out", "Already out", "Unknown card", "Recorded"}

C31_WitnessReady ==
    /\ pc = "idle"
    /\ taps >= 1
    /\ display = "Error"
    /\ rosterAvailable /\ servicesAvailable
    /\ status = "Ready for scan"

----------------------------------------------------------------------------
(* The order of the steps of one tap, checked under Spec *)

\* Positions of the entries of seq that lie in S.
PositionsIn(seq, S) == {i \in 1..Len(seq) : seq[i] \in S}

\* The scanning screen is up before the first attempt, and no outcome is
\* presented before postScanEvent has returned with its classified reply.
ScanningThenOutcome ==
    /\ (pc \in {"attempt", "returned"}) =>
          /\ steps = <<"read", "Scanning">>
          /\ CountIn(steps, Feedbacks) = 0
    /\ (pc = "idle" /\ steps # <<>>) =>
          /\ SubSeq(steps, 1, 2) = <<"read", "Scanning">>
          /\ \A i \in PositionsIn(steps, Feedbacks) : i > 2

\* C32: within one tap the steps follow the stated data flow: scanning
\* feedback before the first submission attempt, outcome feedback only after
\* classification, and the roster cache update after the outcome feedback
\* and before the return to idle.
C32_DataFlowOrder ==
    /\ ScanningThenOutcome
    /\ \A u \in PositionsIn(steps, {"upsert"}) :
          /\ \E f \in PositionsIn(steps, Feedbacks) : f < u
          /\ \E s \in PositionsIn(steps, {"status"}) : u < s

\* What loop() does: the cache update comes after classification, right
\* before the outcome feedback.
C32_UpsertBeforeFeedback ==
    /\ ScanningThenOutcome
    /\ \A u \in PositionsIn(steps, {"upsert"}) :
          /\ u > 2
          /\ u < Len(steps)
          /\ steps[u + 1] \in Feedbacks

----------------------------------------------------------------------------
(* The report of ensureTimeSync, checked under SpecTime *)

\* ensureTimeSync has just returned: now and guard are its locals.
SyncReturned == tPc = "synced"

\* C33: the sync-timeout warning is logged exactly when the clock is still
\* below the sanity threshold after the cap; a clock that became valid on
\* any poll up to and including the last is reported as synchronised.
C33_TimeoutWarningExact ==
    SyncReturned => (timedOut <=> now < kSaneEpoch)

\* What ensureTimeSync does: the warning tells that the 60 polls were used
\* up, and a clock still below the threshold is always reported with it.
C33_TimeoutWarningOnCap ==
    SyncReturned =>
        /\ timedOut <=> guard >= kSyncMaxPolls
        /\ now < kSaneEpoch => timedOut

----------------------------------------------------------------------------
(* The work of one connectToWiFi() call, checked under SpecWifi *)

\* Status polls of the candidates tried so far.
RECURSIVE PollsOf(_)
PollsOf(tried) ==
    IF tried = <<>> THEN 0
    ELSE tried[1].polls + PollsOf(Tail(tried))

\* Status polls of this call: the candidates done with, and the one being
\* polled.
PollsSoFar == PollsOf(wTried) + (IF wPc = "poll" THEN wAttempts ELSE 0)

\* C34: one call of connectToWiFi tries each known network at most once and
\* so performs at most (number of known networks x 10) status polls,
\* whatever the scan reports, several results with one name included.
C34_EachNetworkOnce ==
    /\ NoRepeat(priority)
    /\ NoRepeat(SsidsOf(wTried))
    /\ PollsSoFar <= Len(kWifiSsids) * kWifiMaxRetries

\* What connectToWiFi does: every candidate of the priority vector is tried
\* at most once and polled at most 10 times; the vector holds one entry for
\* each scan result with a known name, and one for each known network the
\* scan did not report.
C34_BoundedByCandidates ==
    wPc # "idle" =>
        /\ Len(priority) = Cardinality(KnownHits)
                               + Cardinality(KnownSsids \ SeenKnown)
        /\ Len(wTried) <= Len(priority)
        /\ wIdx <= Len(priority)
        /\ PollsSoFar <= Len(priority) * kWifiMaxRetries

----------------------------------------------------------------------------
(* doPost executions running at the same time, under the script lock *)

\* doPost calls made in one run of SpecLock.
MaxLockCalls == 3

\* error.message of the exception lock.waitLock throws at its time limit.
LockTimeoutMessage == "Lock timeout"

\* What the other variables do while doPost executions run.
LockFrame ==
    /\ UNCHANGED <<wifiVars, timeVars, probe, reqVars, dashVars>>
    /\ UNCHANGED <<parseVars, devVars, bootVars, steps, cacheVars>>

\* A scan request arrives and a doPost execution starts for it.
LockArrive(c) ==
    /\ calls[c].pc \in {"none", "done"}
    /\ taps < MaxLockCalls
    /\ \E uid \in Cards \cup {""} :
          calls' = [calls EXCEPT ![c] = [NoCall EXCEPT !.pc = "wait",
                                                       !.uid = uid]]
    /\ taps' = taps + 1
    /\ UNCHANGED <<lock, students, attendance, unregistered, today, tapChanges>>
    /\ LockFrame

\* A slip of the step below: the lock is taken without waiting for it to
\* be free.
WaitLockNoWait(c) ==
    /\ calls[c].pc = "wait"
    /\ lock' = c
    /\ calls' = [calls EXCEPT ![c].pc = "read"]
    /\ UNCHANGED srvVars
    /\ LockFrame

\* lock.waitLock(10000) returns: the lock was free, or became free in time.
WaitLock(c) ==
    /\ calls[c].pc = "wait"
    /\ lock = 0
    /\ lock' = c
    /\ calls' = [calls EXCEPT ![c].pc = "read"]
    /\ UNCHANGED srvVars
    /\ LockFrame

\* lock.waitLock(10000) throws: another execution held the lock for the
\* whole wait.  The catch clause builds the error reply.
WaitLockTimesOut(c) ==
    /\ calls[c].pc = "wait"
    /\ lock # 0
    /\ calls' = [calls EXCEPT ![c].pc = "finally",
                              ![c].timedOut = TRUE,
                              ![c].reply = JsonError(LockTimeoutMessage)]
    /\ UNCHANGED lock
    /\ UNCHANGED srvVars
    /\ LockFrame

\* The scan branch returns the error reply for a request without uid, or
\* reads the sheets: findStudentByUid and findOpenAttendanceRowForDate.
LockedRead(c) ==
    /\ calls[c].pc = "read"
    /\ calls' =
          IF calls[c].uid = ""
            THEN [calls EXCEPT ![c].pc = "finally",
                               ![c].reply = JsonError("UID is required")]
          ELSE [calls EXCEPT
                    ![c].pc = "write",
                    ![c].student = FindStudentByUid(students, calls[c].uid),
                    ![c].openRow = FindOpenAttendanceRowForDate(
                                       attendance, calls[c].uid, today)]
    /\ UNCHANGED lock
    /\ UNCHANGED srvVars
    /\ LockFrame

\* The scan branch writes what it decided on the rows it read:
\* appendUnregistered, appendRow of a check-in, or setValue of the check-out
\* cell of the open row; then the reply is built.
LockedWrite(c) ==
    LET call == calls[c]
        iso == IsoOfDay(today)
    IN
    /\ call.pc = "write"
    /\ IF call.student = NoStudent
         THEN /\ unregistered' = Append(unregistered,
                    [CARD_UID |-> call.uid, Date |-> today, Status |-> "Pending"])
              /\ UNCHANGED <<attendance, tapChanges>>
              /\ calls' = [calls EXCEPT ![c].pc = "finally", ![c].wrote = TRUE,
                                        ![c].reply = JsonUnregistered(iso)]
       ELSE IF call.openRow = 0
         THEN /\ attendance' = Append(attendance,
                    [CARD_UID |-> call.uid, SUID |-> call.student.SUID,
                     DateKey |-> today, CheckInTime |-> HumanTime,
                     CheckOutTime |-> "", Name |-> FullNameOf(call.student)])
              /\ tapChanges' = tapChanges + 1
              /\ UNCHANGED unregistered
              /\ calls' = [calls EXCEPT ![c].pc = "finally", ![c].wrote = TRUE,
                              ![c].reply = JsonAttendance("checkin", iso,
                                  call.student.FirstName,
                                  FullNameOf(call.student))]
       ELSE /\ attendance' = [attendance EXCEPT
                                 ![call.openRow].CheckOutTime = HumanTime]
            /\ tapChanges' = tapChanges + 1
            /\ UNCHANGED unregistered
            /\ calls' = [calls EXCEPT ![c].pc = "finally", ![c].wrote = TRUE,
                            ![c].reply = JsonAttendance("checkout", iso,
                                call.student.FirstName,
                                FullNameOf(call.student))]
    /\ UNCHANGED <<lock, students, today, taps>>
    /\ LockFrame

\* finally { lock.releaseLock(); }: the lock is given up by the execution
\* that holds it; the reply goes out.
LockRelease(c) ==
    /\ calls[c].pc = "finally"
    /\ lock' = IF lock = c THEN 0 ELSE lock
    /\ calls' = [calls EXCEPT ![c].pc = "done"]
    /\ UNCHANGED srvVars
    /\ LockFrame

InitLock == ParseIdle /\ DevInit /\ SrvInit

NextLock ==
    \E c \in Clients :
        \/ LockArrive(c)
        \/ WaitLock(c)
        \/ WaitLockTimesOut(c)
        \/ LockedRead(c)
        \/ LockedWrite(c)
        \/ LockRelease(c)

SpecLock == InitLock /\ [][NextLock]_vars

\* The executions that stand between waitLock and releaseLock with the
\* sheets open.
InSheets == {c \in Clients : calls[c].pc \in {"read", "write"}}

\* Rows of uid on day without a check-out.
OpenRowsOf(uid, day) ==
    {i \in 1..Len(attendance) :
        /\ attendance[i].CARD_UID = uid
        /\ attendance[i].DateKey = day
        /\ attendance[i].CheckOutTime = ""}

\* A reply body that reports an error.
ReplyIsError(body) == Contains(body, "\"status\":\"error\"")

\* C35: doPost executions exclude each other under the script lock.  Only
\* the holder of the lock reads or writes the sheets, so at most one does
\* and no card has two open check-in rows on one day; an execution whose
\* waitLock ran into the limit replies status error and has written
\* nothing; the lock is held by no execution that has left doPost, and no
\* step of an execution that timed out changes a sheet.
C35_ScriptLock ==
    /\ [](/\ \A c \in InSheets : lock = c
          /\ Cardinality(InSheets) <= 1
          /\ \A uid \in Cards, day \in 1..MaxDay :
                Cardinality(OpenRowsOf(uid, day)) <= 1
          /\ \A c \in Clients :
                /\ calls[c].timedOut =>
                      /\ ~calls[c].wrote
                      /\ ReplyIsError(calls[c].reply)
                /\ calls[c].pc \in {"none", "wait", "done"} => lock # c)
    /\ [][\A c \in Clients :
            (calls[c].timedOut \/ calls'[c].timedOut) /\ calls'[c] # calls[c]
                => UNCHANGED <<students, attendance, unregistered>>]_vars

\* An execution gave up waiting while another held the lock and wrote its
\* check-in; the first is done with an error reply, the lock is free again.
C35_Witness ==
    \E c, d \in Clients :
        /\ c # d
        /\ calls[c].pc = "done" /\ calls[c].timedOut
        /\ ReplyIsError(calls[c].reply)
        /\ calls[d].pc = "done" /\ calls[d].wrote
        /\ calls[d].uid = calls[c].uid
        /\ ReplyIs(calls[d].reply, "checkin")
        /\ lock = 0

\* Two scans of one card were in doPost at the same time; both are done,
\* the second waited for the lock and found the open row of the first.
C35_WitnessSerialised ==
    \E c, d \in Clients :
        /\ c # d
        /\ calls[c].pc = "done" /\ calls[d].pc = "done"
        /\ calls[c].uid = "04A1B2C3" /\ calls[d].uid = "04A1B2C3"
        /\ ReplyIs(calls[c].reply, "checkin")
        /\ ReplyIs(calls[d].reply, "checkout")
        /\ Len(attendance) = 1

----------------------------------------------------------------------------
(* The Unregistered_CARDs sheet after a registration, checked under
   SpecServer *)

\* Rows of the Unregistered_CARDs sheet for uid that the dashboard lists as
\* pending.
PendingRowsOf(uid) ==
    {i \in 1..Len(unregistered) :
        /\ NormUid(unregistered[i].CARD_UID) = NormUid(uid)
        /\ unregistered[i].Status = "Pending"}

\* C36: after a successful register of a card no row of that card in
\* Unregistered_CARDs is left with status Pending, however many times the
\* card was scanned while it was unregistered.
C36_NoPendingAfterRegister ==
    RegisterAccepted => PendingRowsOf(srvRequest.uid) = {}

\* What markCardAsRegistered does: of the rows of the card, the first one is
\* marked Registered; a card scanned once while unregistered has no Pending
\* row after its registration.
C36_FirstRowMarked ==
    RegisterAccepted =>
        LET rows == {i \in 1..Len(unregistered) :
                        NormUid(unregistered[i].CARD_UID)
                            = NormUid(srvRequest.uid)}
        IN /\ rows # {} => unregistered[Min(rows)].Status = "Registered"
           /\ Cardinality(rows) <= 1 => PendingRowsOf(srvRequest.uid) = {}

----------------------------------------------------------------------------
(* doPost from the request body on: parseRequest and the dispatch *)

\* POST requests handled in one run of SpecPost.
MaxPosts == 2

LowerChar(c) ==
    LET i == IndexOf("ABCDEFGHIJKLMNOPQRSTUVWXYZ", c, 0)
    IN IF i = -1 THEN c ELSE SubSeq("abcdefghijklmnopqrstuvwxyz", i + 1, i + 1)

\* String.prototype.toLowerCase
RECURSIVE ToLowerCase(_)
ToLowerCase(s) ==
    IF Len(s) = 0 THEN ""
    ELSE LowerChar(SubSeq(s, 1, 1)) \o ToLowerCase(SubSeq(s, 2, Len(s)))

\* The object a request body holds when JSON.parse gives one: its action,
\* its uid (scan), and the registration fields, which handleRegistration
\* reads from data.data when that is an object and from data itself
\* otherwise.
NoData == [action |-> "", uid |-> "", fields |-> NoPayload]

\* What JSON.parse does with e.postData.contents: it throws, or returns a
\* value that is no object, or returns an object.
JsonKind(contents) ==
    CASE contents = "{\"action\":" -> "throws"
      [] contents = "null" -> "null"
      [] contents = "42" -> "number"
      [] OTHER -> "object"

\* Bodies that hold no request: none at all, broken JSON, JSON that is no
\* object.
BadContents == {"", "{\"action\":", "null", "42"}

\* Registration fields the dashboard, or any other client, may post.
PostedFields ==
    [cardUid : {"", " DEADBEEF"}, uid : {"", "deadbeef"}, suid : {"", "S2"},
     firstName : {"", "Mira"}, lastName : {"", " ", "Shah"}]

\* The POST events: e.postData.contents and, for a body that parses to an
\* object, the object.
PostEvents ==
    [contents : BadContents, data : {NoData}]
    \cup [contents : {"{..}"},
          data : [action : {"", "ping"}, uid : {"DEADBEEF"},
                  fields : {NoPayload}]]
    \cup [contents : {"{..}"},
          data : [action : {"scan"}, uid : {" DEADBEEF", ""},
                  fields : {NoPayload}]]
    \cup [contents : {"{..}"},
          data : [action : {"register", "Register"}, uid : {""},
                  fields : PostedFields]]

\* parseRequest(e)
ParseRequest(e) ==
    IF e.contents = ""
      THEN [valid |-> FALSE, message |-> "Missing request body", data |-> NoData]
    ELSE IF JsonKind(e.contents) = "throws"
      THEN [valid |-> FALSE, message |-> "Invalid JSON payload", data |-> NoData]
    ELSE IF JsonKind(e.contents) # "object"
      THEN [valid |-> FALSE, message |-> "Invalid JSON payload", data |-> NoData]
    ELSE IF e.data.action = ""
      THEN [valid |-> FALSE, message |-> "Action is required", data |-> NoData]
    ELSE [valid |-> TRUE, message |-> "", data |-> e.data]

\* doPost(e) between waitLock and the reply, for requests other than
\* delete: the sheets after the request and the reply body.
DoPost(e) ==
    LET request == ParseRequest(e)
        action == ToLowerCase(request.data.action)
        same == [students |-> students, attendance |-> attendance,
                 unregistered |-> unregistered]
    IN IF ~request.valid
         THEN same @@ [body |-> JsonError(request.message)]
       ELSE IF action = "scan"
         THEN LET done == DoPostScan(Trim(request.data.uid))
              IN [students |-> students, attendance |-> done.attendance,
                  unregistered |-> done.unregistered, body |-> done.body]
       ELSE IF action = "register"
         THEN LET done == HandleRegistration(request.data.fields)
              IN [students |-> done.students, attendance |-> attendance,
                  unregistered |-> done.unregistered, body |-> done.body]
       ELSE same @@ [body |-> JsonError("Unsupported action")]

\* doPost handles one POST event.
SrvPost ==
    /\ taps < MaxPosts
    /\ \E e \in PostEvents : \E done \in {DoPost(e)} :
             /\ students' = done.students
             /\ attendance' = done.attendance
             /\ unregistered' = done.unregistered
             /\ srvReply' = done.body
             /\ srvRequest' = [action |-> ToLowerCase(e.data.action),
                               uid |-> e.data.uid, data |-> e.data.fields,
                               event |-> e]
    /\ taps' = taps + 1
    /\ UNCHANGED <<today, tapChanges, registers, scanLog>>
    /\ UNCHANGED <<wifiVars, timeVars, probe, webVars, parseVars, devVars>>
    /\ UNCHANGED <<bootVars, steps, cacheVars>>

InitPost == ParseIdle /\ DevInit /\ SrvInit

NextPost == SrvPost

SpecPost == InitPost /\ [][NextPost]_vars

\* doPost has just handled a POST event.
PostHandled == taps' = taps + 1

\* The event is a register request.
IsRegisterEvent(e) ==
    /\ JsonKind(e.contents) = "object"
    /\ ToLowerCase(e.data.action) = "register"

\* The event holds no request doPost supports: no body, a body that is no
\* JSON object, no action, or an action that is none of scan, register,
\* delete.
IsBadPost(e) ==
    \/ e.contents = ""
    \/ JsonKind(e.contents) # "object"
    \/ e.data.action = ""
    \/ ToLowerCase(e.data.action) \notin {"scan", "register", "delete"}

\* No sheet is modified by the step.
SheetsUntouched == UNCHANGED <<students, attendance, unregistered>>

\* The card identifier of a registration: cardUid, or uid in its place.
CardIdOf(fields) ==
    IF fields.cardUid # "" THEN fields.cardUid ELSE fields.uid

\* The four fields by the name the error message gives them, with what is
\* left of their values after trimming.
GivenFields(fields) ==
    [cardUid |-> Trim(CardIdOf(fields)), suid |-> Trim(fields.suid),
     firstName |-> Trim(fields.firstName), lastName |-> Trim(fields.lastName)]

FieldNames == {"cardUid", "suid", "firstName", "lastName"}

\* The reply is an error that names exactly the fields of given that are
\* empty.
NamesMissing(body, given) ==
    /\ ReplyIsError(body)
    /\ Contains(body, "Missing fields: ")
    /\ \A n \in FieldNames :
          Contains(body, n) <=> given[n] = ""

\* C37 as stated: a register request in which one of cardUid, suid,
\* firstName, lastName is absent or empty is answered with status error and
\* modifies no sheet; so is a POST with no body, invalid JSON, no action or
\* an unsupported action.
C37_InvalidRequestsRejected ==
    [][PostHandled =>
        LET e == srvRequest'.event
            fields == e.data.fields
        IN /\ (IsRegisterEvent(e) /\ \E n \in FieldNames : fields[n] = "") =>
                  ReplyIsError(srvReply') /\ SheetsUntouched
           /\ IsBadPost(e) => ReplyIsError(srvReply') /\ SheetsUntouched]_vars

\* C37, amended: a register request in which the card identifier (cardUid,
\* or uid in its place), suid, firstName or lastName is absent, empty or
\* blank is answered with status error, the message naming exactly the
\* fields that are missing, and modifies no sheet; a POST with no body,
\* invalid JSON, no action or an unsupported action is answered with
\* status error and modifies no sheet.
C37_IncompleteRegisterRejected ==
    [][PostHandled =>
        LET e == srvRequest'.event
            given == GivenFields(e.data.fields)
        IN /\ (IsRegisterEvent(e) /\ \E n \in FieldNames : given[n] = "") =>
                  NamesMissing(srvReply', given) /\ SheetsUntouched
           /\ IsBadPost(e) => ReplyIsError(srvReply') /\ SheetsUntouched]_vars

\* A card with a Pending row; the register request for it that came
\* without suid was refused, and the row is still Pending.
C37_Witness ==
    /\ srvRequest.action = "register"
    /\ srvRequest.data.cardUid = " DEADBEEF"
    /\ srvRequest.data.suid = ""
    /\ srvRequest.data.firstName = "Mira"
    /\ srvRequest.data.lastName = "Shah"
    /\ srvReply = JsonError("Missing fields: suid")
    /\ Len(students) = 1
    /\ Len(unregistered) = 1
    /\ unregistered[1].Status = "Pending"

\* A body that is no JSON was refused after a scan had written a row.
C37_WitnessBadPost ==
    /\ taps = 2
    /\ srvRequest.event.contents = "{\"action\":"
    /\ srvReply = JsonError("Invalid JSON payload")
    /\ Len(unregistered) = 1

----------------------------------------------------------------------------
(* The dashboard: loadDashboard and submitRegistration of script.js *)

\* Clicks on the refresh button in one run of SpecDash.
MaxClicks == 1

\* Registration forms submitted in one run of SpecDash.
MaxSubmits == 1

\* What the registration form may hold when it is submitted.
DashPayloads ==
    [cardUid : {"DEADBEEF"}, uid : {""}, suid : {"S2"}, firstName : {"Mira"},
     lastName : {"Shah", ""}]

\* doGet without parameters: the three sheets as arrays of objects.
DashboardData ==
    [students |-> students, attendance |-> attendance,
     unregistered |-> unregistered]

\* What the other variables do while the dashboard runs.
DashFrame ==
    /\ UNCHANGED <<wifiVars, timeVars, probe, lockVars>>
    /\ UNCHANGED <<parseVars, devVars, bootVars, steps, cacheVars>>
    /\ UNCHANGED <<attendance, today, tapChanges, taps, scanLog>>

\* A slip of the call below: state.loading is not looked at.
LoadDashboardUnguarded(by) ==
    /\ loading' = TRUE
    /\ fetches' = Append(fetches, [pc |-> "sent", snap |-> NoSnap, by |-> by])

\* loadDashboard() up to its first await: the call returns at once while a
\* load is in flight; otherwise setLoading(true) and the GET is sent.
LoadDashboard(by) ==
    IF loading
      THEN /\ fetches' = Append(fetches,
                            [pc |-> "ignored", snap |-> NoSnap, by |-> by])
           /\ UNCHANGED loading
    ELSE /\ loading' = TRUE
         /\ fetches' = Append(fetches,
                          [pc |-> "sent", snap |-> NoSnap, by |-> by])

\* The loads whose GET is on its way or answered but not yet received.
InFlight == {i \in 1..Len(fetches) : fetches[i].pc \in {"sent", "served"}}

\* Clicks on the refresh button so far.
Clicks == Cardinality({i \in 1..Len(fetches) : fetches[i].by = "click"})

\* DOMContentLoaded: bindEventListeners(); loadDashboard().
DashOpen ==
    /\ fetches = <<>>
    /\ LoadDashboard("open")
    /\ UNCHANGED <<dashState, regPc, lastLoad>>
    /\ UNCHANGED <<students, unregistered, srvRequest, srvReply, registers>>
    /\ DashFrame

\* A click on the refresh button, which setLoading disables during a load.
DashRefreshClick ==
    /\ fetches # <<>>
    /\ ~loading
    /\ Clicks < MaxClicks
    /\ LoadDashboard("click")
    /\ UNCHANGED <<dashState, regPc, lastLoad>>
    /\ UNCHANGED <<students, unregistered, srvRequest, srvReply, registers>>
    /\ DashFrame

\* The loadDashboard calls one run can make: the page load, the clicks,
\* one call for each registration.
LoadIds == 1..(1 + MaxClicks + MaxSubmits)

\* The endpoint answers the GET of load i from the sheets as they are.
DashGetServed(i) ==
    /\ i \in DOMAIN fetches
    /\ fetches[i].pc = "sent"
    /\ fetches' = [fetches EXCEPT ![i].pc = "served",
                                  ![i].snap = DashboardData]
    /\ UNCHANGED <<loading, dashState, regPc, lastLoad>>
    /\ UNCHANGED <<students, unregistered, srvRequest, srvReply, registers>>
    /\ DashFrame

\* submitRegistration goes on after its await loadDashboard() returns.
RegAfterLoad(i) ==
    IF fetches[i].by = "register" THEN regPc' = "done" ELSE UNCHANGED regPc

\* The reply of load i arrives: the state is replaced, the tables are
\* rendered; finally setLoading(false).
DashGetArrives(i) ==
    /\ i \in DOMAIN fetches
    /\ fetches[i].pc = "served"
    /\ dashState' = fetches[i].snap
    /\ lastLoad' = "ok"
    /\ loading' = FALSE
    /\ fetches' = [fetches EXCEPT ![i].pc = "done"]
    /\ RegAfterLoad(i)
    /\ UNCHANGED <<students, unregistered, srvRequest, srvReply, registers>>
    /\ DashFrame

\* Load i fails: fetch rejects, or the reply is not ok or malformed; the
\* catch clause shows the error; finally setLoading(false).
DashGetFails(i) ==
    /\ i \in DOMAIN fetches
    /\ fetches[i].pc \in {"sent", "served"}
    /\ lastLoad' = "failed"
    /\ loading' = FALSE
    /\ fetches' = [fetches EXCEPT ![i].pc = "failed"]
    /\ RegAfterLoad(i)
    /\ UNCHANGED dashState
    /\ UNCHANGED <<students, unregistered, srvRequest, srvReply, registers>>
    /\ DashFrame

\* The registration form is submitted: setFormDisabled(true), the POST is
\* sent.
DashSubmit ==
    /\ fetches # <<>>
    /\ regPc = "idle"
    /\ registers < MaxSubmits
    /\ regPc' = "posted"
    /\ UNCHANGED <<loading, dashState, fetches, lastLoad>>
    /\ UNCHANGED <<students, unregistered, srvRequest, srvReply, registers>>
    /\ DashFrame

\* The endpoint handles the register request.
DashPostServed ==
    /\ regPc = "posted"
    /\ \E data \in DashPayloads : \E done \in {HandleRegistration(data)} :
          /\ students' = done.students
          /\ unregistered' = done.unregistered
          /\ srvReply' = done.body
          /\ srvRequest' = [action |-> "register", uid |-> data.cardUid,
                            data |-> data]
    /\ registers' = registers + 1
    /\ regPc' = "served"
    /\ UNCHANGED <<loading, dashState, fetches, lastLoad>>
    /\ DashFrame

\* The reply of the POST arrives.  With status ok: toast, form reset,
\* await loadDashboard(); otherwise the catch clause shows the message.
DashPostReply ==
    /\ regPc = "served"
    /\ IF Contains(srvReply, "\"status\":\"ok\"")
         THEN /\ LoadDashboard("register")
              /\ regPc' = IF loading THEN "done" ELSE "loading"
       ELSE /\ regPc' = "failed"
            /\ UNCHANGED <<loading, fetches>>
    /\ UNCHANGED <<dashState, lastLoad>>
    /\ UNCHANGED <<students, unregistered, srvRequest, srvReply, registers>>
    /\ DashFrame

\* The POST fails: fetch rejects, whether or not the endpoint handled it.
DashPostFails ==
    /\ regPc \in {"posted", "served"}
    /\ regPc' = "failed"
    /\ UNCHANGED <<loading, dashState, fetches, lastLoad>>
    /\ UNCHANGED <<students, unregistered, srvRequest, srvReply, registers>>
    /\ DashFrame

InitDash == ParseIdle /\ DevInit /\ SrvInit

NextDash ==
    \/ DashOpen
    \/ DashRefreshClick
    \/ \E i \in LoadIds : DashGetServed(i)
    \/ \E i \in LoadIds : DashGetArrives(i)
    \/ \E i \in LoadIds : DashGetFails(i)
    \/ DashSubmit
    \/ DashPostServed
    \/ DashPostReply
    \/ DashPostFails

SpecDash == InitDash /\ [][NextDash]_vars

\* C38: the dashboard has at most one data load in flight.  A
\* loadDashboard call made while state.loading is true starts nothing, one
\* made while it is false starts a load; state.loading is true exactly
\* while a load is in flight, so it is false again after every load,
\* failed ones included, and the refresh button works again.
C38_OneLoadInFlight ==
    /\ [](/\ Cardinality(InFlight) <= 1
          /\ loading <=> InFlight # {}
          /\ (fetches # <<>> /\ InFlight = {} /\ Clicks < MaxClicks)
                => ENABLED DashRefreshClick)
    /\ [][Len(fetches') = Len(fetches) + 1 =>
            (fetches'[Len(fetches')].pc = "ignored" <=> loading)]_vars

\* The first load failed; the refresh clicked after it succeeded, and the
\* call submitRegistration made while it was in flight was ignored.
C38_Witness ==
    /\ Len(fetches) >= 3
    /\ fetches[1].pc = "failed"
    /\ fetches[2].by = "click" /\ fetches[2].pc = "done"
    /\ fetches[3].pc = "ignored"
    /\ ~loading
    /\ lastLoad = "ok"

\* submitRegistration has returned after a registration the endpoint
\* accepted, no load is in flight, and the last load that finished
\* succeeded.
RegistrationSettled ==
    /\ regPc = "done"
    /\ InFlight = {}
    /\ lastLoad = "ok"

\* C39: after a registration has succeeded the dashboard state is
\* replaced by data fetched after the registration completed, under every
\* interleaving of the refresh button and the form: once things have
\* settled the state holds the sheets as the registration left them.
C39_FreshAfterRegistration ==
    RegistrationSettled => dashState = DashboardData

\* What submitRegistration achieves: when its loadDashboard call found no
\* load in flight and the load it started succeeded, the state holds the
\* sheets as the registration left them.
C39_FreshWhenNoLoadInFlight ==
    \A i \in 1..Len(fetches) :
        (fetches[i].by = "register" /\ fetches[i].pc = "done"
            /\ InFlight = {} /\ lastLoad = "ok")
        => dashState = DashboardData

====
